---- MODULE Spec2Model ----
(***************************************************************************)
(* Really Nice IRL: the persistence layer (base.py) as a state machine.    *)
(*                                                                         *)
(* The relational store is the shared state: the tables "IRL Data",        *)
(* "Action Points", "Project Teams" and "Users".  Every public operation   *)
(* of base.py opens its own unit of work, so each is one atomic action.    *)
(* Browser sessions hold in-memory copies of assessment rows (ss.project,  *)
(* ss.projects, the multiselect options) which they later hand back to     *)
(* update(); such a copy can be older than the stored row.                 *)
(*                                                                         *)
(* An IRLAssessment row is modelled with every mapped column.  A due date  *)
(* that is not set is the empty text.                                      *)
(* Primary keys are handed out increasingly and are never reused.          *)
(***************************************************************************)
EXTENDS Integers, Sequences, FiniteSets, TLC

VARIABLES
    today,          \* index of the wall-clock day (datetime.now())
    irl_data,       \* the "IRL Data" table: a set of IRLAssessment rows
    next_ass_id,    \* next primary key of "IRL Data"
    action_points,  \* the "Action Points" table
    next_ap_id,     \* next primary key of "Action Points"
    project_teams,  \* the "Project Teams" table
    next_team_id,   \* next primary key of "Project Teams"
    users,          \* the "Users" table
    held,           \* per session: the IRLAssessment object it holds in memory
    user_settings,  \* the "User Settings" table
    organisations,  \* the "Organisations" table
    faculties,      \* the "Faculties" table
    departments,    \* the "Departments" table
    owner_org_id,   \* SystemSettings.owner_org_id of the singleton row
    ss,             \* per session: streamlit's session_state
    running,        \* per session: the callback in progress and its locals
    last            \* the last operation run: its name, the arguments the
                    \* properties refer to, and what it returned

\* The tables and session state the assessment operations never touch.
shell_vars == <<user_settings, organisations, faculties, departments,
                owner_org_id, ss, running>>

\* The tables the account and bootstrap operations never touch.
project_vars == <<today, irl_data, next_ass_id, action_points, next_ap_id,
                  project_teams, next_team_id, held>>

vars == <<today, irl_data, next_ass_id, action_points, next_ap_id,
          project_teams, next_team_id, users, held, user_settings,
          organisations, faculties, departments, owner_org_id, ss, running,
          last>>

-----------------------------------------------------------------------------
(* Bounds of the model.                                                    *)

MaxAssId == 2
MaxSnapshotId == 3
MaxApId == 2
MaxCopyId == 4
MaxTeamId == 2
MaxUserId == 5
MaxOrgId == 2

Sessions == {"s1", "s2"}
ProjectNos == {101, 102}
Levels == {1, 2}
NotesVals == {"None", "note"}

\* Python's None in a text column, and in an integer column.
NoneText == "None"
NoCopy == [id |-> 0]

\* The days the wall clock runs through, as (year, month, day).
Calendar == << <<2024, 9, 30>>, <<2024, 10, 1>> >>

-----------------------------------------------------------------------------
(* Dates: stored as 'YYYY-MM-DD' text and compared as text.                *)

\* '%02d' of a number below 100: its two decimal digits.
Pad2(n) == <<n \div 10, n % 10>>

\* IRLAssessment._getDate: '%d-%02d-%02d' % (year, month, day) of now().
\* The text is kept as the sequence of its fields' characters: the year (four
\* digits in every date of the calendar) and the two-digit month and day.
getDate(day) ==
    LET ymd == Calendar[day + 1]
    IN  <<ymd[1]>> \o Pad2(ymd[2]) \o Pad2(ymd[3])

\* Text comparison of two stored dates (SQL '<' on the text column).
DateLt(a, b) ==
    \E i \in 1..Len(a) :
        /\ i <= Len(b)
        /\ a[i] < b[i]
        /\ \A j \in 1..(i - 1) : a[j] = b[j]

-----------------------------------------------------------------------------
(* The initial store: the seeded users, no project yet.                    *)

\* bcrypt.hashpw(password, salt).decode('utf-8'): the stored text names the
\* scheme and is determined by the password (the salt is part of the text and
\* plays no role in verification).
hashpw(password) == <<"$2b$", password>>

\* bcrypt.checkpw(password, hashed)
checkpw(password, hashed) == hashed = hashpw(password)

InitUsers ==
    { [user_id |-> 1, username |-> "ann", password |-> hashpw("pw1"),
       rights |-> 2, active |-> 1, org_id |-> 1],
      [user_id |-> 2, username |-> "bob", password |-> hashpw("pw1"),
       rights |-> 8, active |-> 1, org_id |-> 1],
      [user_id |-> 3, username |-> "cat", password |-> hashpw("pw1"),
       rights |-> 9, active |-> 1, org_id |-> 2] }

UserIds == {u.user_id : u \in InitUsers}

\* The organisations of the seeded users; the first is the owner.
InitOrganisations ==
    { [org_id |-> 1, org_name |-> "KTH"], [org_id |-> 2, org_name |-> "NTNU"] }

\* Fault variant of the defaults: filter_on_user is left off.
NewUserSettingsUnfiltered(id, user_id) ==
    [id |-> id, user_id |-> user_id, smooth_irl |-> 1, filter_on_user |-> 0,
     remember_project |-> 1, ascending_irl |-> 1, ap_table_view |-> 0,
     dark_mode |-> 1]

\* The UserSettings row add_user pairs with a new user.
NewUserSettings(id, user_id) ==
    [id |-> id, user_id |-> user_id, smooth_irl |-> 1, filter_on_user |-> 1,
     remember_project |-> 1, ascending_irl |-> 1, ap_table_view |-> 0,
     dark_mode |-> 1]

\* No User object (Python's None where a User is expected), and a NULL
\* password column.
NoUser == [user_id |-> 0]
NoPassword == <<>>

\* session_state of a browser session that has not run the script yet.
NewSession ==
    [status |-> "unverified", user |-> NoUser,
     add_new_user_status |-> NoneText, shown |-> {},
     assessments_to_delete |-> {}, i_know_what_im_doing |-> FALSE,
     i_really_know |-> FALSE]

\* No callback in progress.
Idle == [pc |-> "idle"]

\* The store with the given users and organisations and the given
\* owner_org_id (0 for a NULL column); every user has its settings row.
InitStore(us, orgs, owner) ==
    /\ today = 0
    /\ irl_data = {}
    /\ next_ass_id = 1
    /\ action_points = {}
    /\ next_ap_id = 1
    /\ project_teams = {}
    /\ next_team_id = 1
    /\ users = us
    /\ held = [s \in Sessions |-> NoCopy]
    /\ user_settings = {NewUserSettings(u.user_id, u.user_id) : u \in us}
    /\ organisations = orgs
    /\ faculties = {}
    /\ departments = {}
    /\ owner_org_id = owner
    /\ ss = [s \in Sessions |-> NewSession]
    /\ running = [s \in Sessions |-> Idle]
    /\ last = [op |-> "init"]

Init == InitStore(InitUsers, InitOrganisations, 1)

\* The wall clock passes midnight.
Tick ==
    /\ today + 1 < Len(Calendar)
    /\ today' = today + 1
    /\ last' = [op |-> "tick"]
    /\ UNCHANGED <<irl_data, next_ass_id, action_points, next_ap_id,
                   project_teams, next_team_id, users, held>>
    /\ UNCHANGED shell_vars

-----------------------------------------------------------------------------
(* IRLAssessment.insert                                                    *)

\* A new project as the caller builds it before insert(): no id, no date.
\* The columns a new project leaves as the form presets them: the other
\* levels and targets at 1, no notes, no target lead, no due date.
PresetColumns ==
    [project_name |-> "Alpha", project_description |-> "first project",
     trl |-> 1, brl |-> 1, iprl |-> 1, tmrl |-> 1, frl |-> 1,
     crl_notes |-> NoneText, trl_notes |-> NoneText, brl_notes |-> NoneText,
     iprl_notes |-> NoneText, tmrl_notes |-> NoneText, frl_notes |-> NoneText,
     trl_target |-> 1, brl_target |-> 1, iprl_target |-> 1,
     tmrl_target |-> 1, frl_target |-> 1,
     crl_target_lead |-> NoneText, trl_target_lead |-> NoneText,
     brl_target_lead |-> NoneText, iprl_target_lead |-> NoneText,
     tmrl_target_lead |-> NoneText, frl_target_lead |-> NoneText,
     crl_target_duedate |-> <<>>, trl_target_duedate |-> <<>>,
     brl_target_duedate |-> <<>>, iprl_target_duedate |-> <<>>,
     tmrl_target_duedate |-> <<>>, frl_target_duedate |-> <<>>,
     plot_targets |-> 1]

NewAssessment(project_no, leader, crl, notes) ==
    [id |-> 0, project_no |-> project_no, project_leader_id |-> leader,
     assessment_date |-> <<>>, project_notes |-> notes, crl |-> crl,
     crl_target |-> crl, active |-> 1] @@ PresetColumns

\* Fault variant of the existence test: only active rows count.
ProjectExistsActive(project_no) ==
    \E r \in irl_data : r.project_no = project_no /\ r.active = 1

\* exists = query(IRLAssessment).filter(project_no == self.project_no).first()
ProjectExists(project_no) ==
    \E r \in irl_data : r.project_no = project_no

insert(self) ==
    /\ IF ProjectExists(self.project_no)
       THEN /\ last' = [op |-> "insert", project_no |-> self.project_no,
                        error |-> "Project already exists in the database!"]
            /\ UNCHANGED <<irl_data, next_ass_id>>
       ELSE /\ irl_data' = irl_data \cup
                   {[self EXCEPT !.id = next_ass_id,
                                 !.assessment_date = getDate(today)]}
            /\ next_ass_id' = next_ass_id + 1
            /\ last' = [op |-> "insert", project_no |-> self.project_no,
                        error |-> NoneText]
    /\ UNCHANGED <<today, action_points, next_ap_id, project_teams,
                   next_team_id, users, held>>
    /\ UNCHANGED shell_vars

-----------------------------------------------------------------------------
(* A session loads a stored row (get_irl, get_project_history,             *)
(* get_projects all hand out IRLAssessment objects) and edits it in        *)
(* memory before saving.                                                   *)

get_irl(s, irl_ass_id) ==
    /\ \E r \in irl_data :
          /\ r.id = irl_ass_id
          /\ held' = [held EXCEPT ![s] = r]
    /\ last' = [op |-> "get_irl"]
    /\ UNCHANGED <<today, irl_data, next_ass_id, action_points, next_ap_id,
                   project_teams, next_team_id, users>>
    /\ UNCHANGED shell_vars

EditInMemory(s, crl, notes) ==
    /\ held[s] # NoCopy
    /\ held' = [held EXCEPT ![s] = [@ EXCEPT !.crl = crl,
                                             !.project_notes = notes]]
    /\ held'[s] # held[s]
    /\ last' = [op |-> "edit"]
    /\ UNCHANGED <<today, irl_data, next_ass_id, action_points, next_ap_id,
                   project_teams, next_team_id, users>>
    /\ UNCHANGED shell_vars

-----------------------------------------------------------------------------
(* IRLAssessment.update(overwrite, keep_ass_notes)                         *)

\* Fault variant of the in-place branch: the notes are not written.
OverwriteRowLevels(self) ==
    {IF r.id = self.id THEN [self EXCEPT !.project_notes = r.project_notes]
     ELSE r : r \in irl_data}

\* The in-place branch: query.filter(id == self.id).update(mapped_values),
\* mapped_values holding every mapped column of self.
OverwriteRow(self) ==
    {IF r.id = self.id THEN self ELSE r : r \in irl_data}

\* Fault variant of the new row: the notes are copied whatever the flag.
NewIrlWithNotes(self, date, keep_ass_notes) ==
    [id |-> next_ass_id,
     project_no |-> self.project_no,
     project_name |-> self.project_name,
     project_leader_id |-> self.project_leader_id,
     project_description |-> self.project_description,
     assessment_date |-> date,
     crl |-> self.crl,
     trl |-> self.trl,
     brl |-> self.brl,
     iprl |-> self.iprl,
     tmrl |-> self.tmrl,
     frl |-> self.frl,
     project_notes |-> IF TRUE THEN self.project_notes ELSE NoneText,
     crl_notes |-> IF TRUE THEN self.crl_notes ELSE NoneText,
     trl_notes |-> IF TRUE THEN self.trl_notes ELSE NoneText,
     brl_notes |-> IF TRUE THEN self.brl_notes ELSE NoneText,
     iprl_notes |-> IF TRUE THEN self.iprl_notes ELSE NoneText,
     tmrl_notes |-> IF TRUE THEN self.tmrl_notes ELSE NoneText,
     frl_notes |-> IF TRUE THEN self.frl_notes ELSE NoneText,
     crl_target |-> self.crl_target,
     trl_target |-> self.trl_target,
     brl_target |-> self.brl_target,
     iprl_target |-> self.iprl_target,
     tmrl_target |-> self.tmrl_target,
     frl_target |-> self.frl_target,
     crl_target_lead |-> self.crl_target_lead,
     trl_target_lead |-> self.trl_target_lead,
     brl_target_lead |-> self.brl_target_lead,
     iprl_target_lead |-> self.iprl_target_lead,
     tmrl_target_lead |-> self.tmrl_target_lead,
     frl_target_lead |-> self.frl_target_lead,
     crl_target_duedate |-> self.crl_target_duedate,
     trl_target_duedate |-> self.trl_target_duedate,
     brl_target_duedate |-> self.brl_target_duedate,
     iprl_target_duedate |-> self.iprl_target_duedate,
     tmrl_target_duedate |-> self.tmrl_target_duedate,
     frl_target_duedate |-> self.frl_target_duedate,
     plot_targets |-> self.plot_targets,
     active |-> self.active]

\* The else branch: new_irl, built column by column from self; a column
\* that is not assigned stays None.
NewIrl(self, date, keep_ass_notes) ==
    [id |-> next_ass_id,
     project_no |-> self.project_no,
     project_name |-> self.project_name,
     project_leader_id |-> self.project_leader_id,
     project_description |-> self.project_description,
     assessment_date |-> date,
     crl |-> self.crl,
     trl |-> self.trl,
     brl |-> self.brl,
     iprl |-> self.iprl,
     tmrl |-> self.tmrl,
     frl |-> self.frl,
     project_notes |-> IF keep_ass_notes THEN self.project_notes ELSE NoneText,
     crl_notes |-> IF keep_ass_notes THEN self.crl_notes ELSE NoneText,
     trl_notes |-> IF keep_ass_notes THEN self.trl_notes ELSE NoneText,
     brl_notes |-> IF keep_ass_notes THEN self.brl_notes ELSE NoneText,
     iprl_notes |-> IF keep_ass_notes THEN self.iprl_notes ELSE NoneText,
     tmrl_notes |-> IF keep_ass_notes THEN self.tmrl_notes ELSE NoneText,
     frl_notes |-> IF keep_ass_notes THEN self.frl_notes ELSE NoneText,
     crl_target |-> self.crl_target,
     trl_target |-> self.trl_target,
     brl_target |-> self.brl_target,
     iprl_target |-> self.iprl_target,
     tmrl_target |-> self.tmrl_target,
     frl_target |-> self.frl_target,
     crl_target_lead |-> self.crl_target_lead,
     trl_target_lead |-> self.trl_target_lead,
     brl_target_lead |-> self.brl_target_lead,
     iprl_target_lead |-> self.iprl_target_lead,
     tmrl_target_lead |-> self.tmrl_target_lead,
     frl_target_lead |-> self.frl_target_lead,
     crl_target_duedate |-> self.crl_target_duedate,
     trl_target_duedate |-> self.trl_target_duedate,
     brl_target_duedate |-> self.brl_target_duedate,
     iprl_target_duedate |-> self.iprl_target_duedate,
     tmrl_target_duedate |-> self.tmrl_target_duedate,
     frl_target_duedate |-> self.frl_target_duedate,
     plot_targets |-> self.plot_targets,
     active |-> self.active]

\* Fault variant of the branch test: the overwrite flag is ignored.
InPlaceSameDay(self, overwrite) ==
    getDate(today) = self.assessment_date

\* if overwrite or date == self.assessment_date
InPlace(self, overwrite) ==
    overwrite \/ getDate(today) = self.assessment_date

update(s, overwrite, keep_ass_notes) ==
    LET self == held[s] IN
    /\ self # NoCopy
    /\ IF InPlace(self, overwrite)
       THEN /\ irl_data' = OverwriteRow(self)
            /\ UNCHANGED next_ass_id
       ELSE /\ irl_data' = irl_data \cup
                   {NewIrl(self, getDate(today), keep_ass_notes)}
            /\ next_ass_id' = next_ass_id + 1
    /\ last' = [op |-> "update", in_place |-> InPlace(self, overwrite),
                error |-> NoneText]
    /\ UNCHANGED <<today, action_points, next_ap_id, project_teams,
                   next_team_id, users, held>>
    /\ UNCHANGED shell_vars

\* The keys of "IRL Data" are explored up to a bound: a call that stores a
\* new row is taken only while the next key is within it.
CanInsert(self, bound) ==
    ProjectExists(self.project_no) \/ next_ass_id <= bound

CanUpdate(s, overwrite, bound) ==
    /\ held[s] # NoCopy
    /\ InPlace(held[s], overwrite) \/ next_ass_id <= bound

-----------------------------------------------------------------------------
(* change_project_status(projects, active)                                 *)

\* active = int(active)
ToInt(b) == IF b THEN 1 ELSE 0

\* Fault variant: only the newest snapshot of a project is given the status.
SetActiveNewest(project_nos, active) ==
    {IF /\ r.project_no \in project_nos
        /\ \A x \in irl_data : x.project_no = r.project_no => x.id <= r.id
     THEN [r EXCEPT !.active = active] ELSE r : r \in irl_data}

\* query.filter(project_no.in_(project_nos)).update({'active': active})
SetActive(project_nos, active) ==
    {IF r.project_no \in project_nos THEN [r EXCEPT !.active = active] ELSE r :
        r \in irl_data}

change_project_status(project_nos, active) ==
    /\ irl_data' = SetActive(project_nos, ToInt(active))
    /\ last' = [op |-> "change_project_status", success |-> TRUE]
    /\ UNCHANGED <<today, next_ass_id, action_points, next_ap_id,
                   project_teams, next_team_id, users, held>>
    /\ UNCHANGED shell_vars

-----------------------------------------------------------------------------
(* ActionPoint.insert: the session attaches a new action point to the      *)
(* assessment it holds.                                                    *)

ap_insert(s, progress) ==
    /\ held[s] # NoCopy
    /\ next_ap_id <= MaxApId
    /\ action_points' = action_points \cup
           {[ap_id |-> next_ap_id, assessment_id |-> held[s].id,
             irl_type |-> "CRL", action_point |-> "Interview customers",
             responsible |-> 1, due_date |-> getDate(1),
             progress |-> progress, comment |-> "started"]}
    /\ next_ap_id' = next_ap_id + 1
    /\ last' = [op |-> "ap_insert"]
    /\ UNCHANGED <<today, irl_data, next_ass_id, project_teams, next_team_id,
                   users, held>>
    /\ UNCHANGED shell_vars

-----------------------------------------------------------------------------
(* delete_assessments(irl_asses)                                           *)

\* aps = query(ActionPoint).filter(assessment_id == irl_ass.id).all()
ApsOf(aps, irl_ass_id) == {ap \in aps : ap.assessment_id = irl_ass_id}

\* Fault variant of the cascade: the action points are left in place.
DeleteApsNone(aps, ap_ids) == aps

\* query(ActionPoint).filter(ap_id.in_(ap_ids)).delete(): the rows left.
DeleteAps(aps, ap_ids) == {ap \in aps : ap.ap_id \notin ap_ids}

\* query(IRLAssessment).filter(id.in_(irl_ass_ids)).delete(): the rows left.
DeleteRows(irl_ass_ids) == {r \in irl_data : r.id \notin irl_ass_ids}

\* Fault variant of the return value: the assessment count is not compared.
CountsMatchApsOnly(ap_dc, n_ap_ids, irl_ass_dc, n_irl_ass_ids) ==
    ap_dc = n_ap_ids

\* success: True unless `ap_dc != len(ap_ids)` or
\* `irl_ass_dc != len(irl_ass_ids)`.
CountsMatch(ap_dc, n_ap_ids, irl_ass_dc, n_irl_ass_ids) ==
    /\ ap_dc = n_ap_ids
    /\ irl_ass_dc = n_irl_ass_ids

\* The ids are those of the IRLAssessment objects the caller selected; the
\* multiselect hands each object over once.  The deletes are committed
\* before the counts are compared.
delete_assessments(irl_ass_ids) ==
    LET ap_ids == {ap.ap_id : ap \in
                      UNION {ApsOf(action_points, i) : i \in irl_ass_ids}}
        aps_left == DeleteAps(action_points, ap_ids)
        ap_dc == Cardinality(action_points) - Cardinality(aps_left)
        rows_left == DeleteRows(irl_ass_ids)
        irl_ass_dc == Cardinality(irl_data) - Cardinality(rows_left)
    IN  /\ action_points' = aps_left
        /\ irl_data' = rows_left
        /\ last' = [op |-> "delete_assessments", ap_dc |-> ap_dc,
                    irl_ass_dc |-> irl_ass_dc,
                    success |-> CountsMatch(ap_dc, Cardinality(ap_ids),
                                            irl_ass_dc,
                                            Cardinality(irl_ass_ids))]
        /\ UNCHANGED <<today, next_ass_id, next_ap_id, project_teams,
                       next_team_id, users, held>>
        /\ UNCHANGED shell_vars

-----------------------------------------------------------------------------
(* Users and project teams.                                                *)

\* change_user_status(users, active): users is a list of user names.
change_user_status(usernames, active) ==
    /\ users' = {IF u.username \in usernames
                    THEN [u EXCEPT !.active = ToInt(active)] ELSE u : u \in users}
    /\ last' = [op |-> "change_user_status", success |-> TRUE]
    /\ UNCHANGED <<today, irl_data, next_ass_id, action_points, next_ap_id,
                   project_teams, next_team_id, held>>
    /\ UNCHANGED shell_vars

\* change_user_rights(user, rights):
\* update(User).where(User.user_id == user.user_id).values(rights=rights)
change_user_rights(user, rights) ==
    /\ users' = {IF u.user_id = user.user_id
                    THEN [u EXCEPT !.rights = rights] ELSE u : u \in users}
    /\ last' = [op |-> "change_user_rights", success |-> TRUE]
    /\ UNCHANGED <<today, irl_data, next_ass_id, action_points, next_ap_id,
                   project_teams, next_team_id, held>>
    /\ UNCHANGED shell_vars

\* Fault variant of get_users: the active column is not filtered on.
get_usersAnyStatus(active, org_id) ==
    {u \in users : u.org_id = org_id}

\* get_users(active, org_id) with an org_id given.
get_users(active, org_id) ==
    {u \in users : u.active = ToInt(active) /\ u.org_id = org_id}

\* add_project_team(project_no, team) for a team of one user: one ProjectTeam
\* row with the user's rights and active = 1.
add_project_team(project_no, user) ==
    /\ next_team_id <= MaxTeamId
    /\ project_teams' = project_teams \cup
           {[id |-> next_team_id, project_id |-> project_no,
             user_id |-> user.user_id, project_rights |-> user.rights,
             active |-> 1]}
    /\ next_team_id' = next_team_id + 1
    /\ last' = [op |-> "add_project_team", errors |-> NoneText]
    /\ UNCHANGED <<today, irl_data, next_ass_id, action_points, next_ap_id,
                   users, held>>
    /\ UNCHANGED shell_vars

\* ProjectTeam.update: writes project_rights and active of the caller's
\* object onto the row with its id.
team_update(self) ==
    /\ project_teams' =
           {IF t.id = self.id
              THEN [t EXCEPT !.project_rights = self.project_rights,
                             !.active = self.active]
              ELSE t : t \in project_teams}
    /\ last' = [op |-> "team_update", errors |-> NoneText]
    /\ UNCHANGED <<today, irl_data, next_ass_id, action_points, next_ap_id,
                   next_team_id, users, held>>
    /\ UNCHANGED shell_vars

-----------------------------------------------------------------------------
(* get_projects(user, filt, active)                                        *)

\* The rights codes a User object can carry.
RightsVals == {4, 7, 8, 9}

\* filt as the callers pass it: a bool, or the integer column
\* UserSettings.filter_on_user.
FiltVals == {"True", "False", "1"}

\* Python's `filt is True`: only the bool True.
IsTrue(filt) == filt = "True"

\* Python's `if filt:`: the bool True and the integer 1.
Truthy(filt) == filt \in {"True", "1"}

\* Fault variant of the grouping: the rows with the least assessment_date.
OldestOf(rows, project_no) ==
    {r \in rows :
        /\ r.project_no = project_no
        /\ \A q \in rows : q.project_no = project_no =>
               ~DateLt(q.assessment_date, r.assessment_date)}

\* The rows of one project_no with the greatest assessment_date.
LatestOf(rows, project_no) ==
    {r \in rows :
        /\ r.project_no = project_no
        /\ \A q \in rows : q.project_no = project_no =>
               ~DateLt(r.assessment_date, q.assessment_date)}

\* query(IRLAssessment).order_by(func.max(assessment_date)).group_by(project_no)
\* over the rows the where clause keeps: one row per project_no, the one holding
\* max(assessment_date); rows tied on the date leave the choice to the
\* database.  Every possible outcome is a member of the set.
GroupByProject(rows) ==
    LET project_nos == {r.project_no : r \in rows}
        latest == [p \in project_nos |-> LatestOf(rows, p)]
        picks == {f \in [project_nos -> rows] :
                     \A p \in project_nos : f[p] \in latest[p]}
    IN  {{f[p] : p \in project_nos} : f \in picks}

\* .where(IRLAssessment.active == active)
WhereActive(active) == {r \in irl_data : r.active = active}

\* Fault variant of the join: ProjectTeam.active is not filtered on.
TeamJoinAnyStatus(user, active) ==
    {r \in irl_data :
        /\ r.active = active
        /\ \E t \in project_teams :
              /\ t.user_id = user.user_id
              /\ r.project_no = t.project_id}

\* .filter((ProjectTeam.user_id == user.user_id) & (ProjectTeam.active == 1) &
\*         (IRLAssessment.project_no == ProjectTeam.project_id) &
\*         (IRLAssessment.active == active))
TeamJoin(user, active) ==
    {r \in irl_data :
        /\ r.active = active
        /\ \E t \in project_teams :
              /\ t.user_id = user.user_id
              /\ t.active = 1
              /\ r.project_no = t.project_id}

\* Fault variant of the narrowing: the rights 9 branch keeps every project.
NarrowAdminAll(user, filt, grouped, requery) ==
    IF user.rights = 8
    THEN LET user_ids == {u.user_id : u \in get_users(TRUE, user.org_id)}
         IN  {p \in grouped :
                 IF Truthy(filt) THEN p.project_leader_id = user.user_id
                                 ELSE p.project_leader_id \in user_ids}
    ELSE IF user.rights <= 3
    THEN IF Truthy(filt)
         THEN {p \in requery : p.project_leader_id = user.user_id}
         ELSE requery
    ELSE grouped

\* The role narrowing applied to the grouped list irl_data; requery is the
\* grouped ProjectTeam join the rights <= 3 branch fetches instead.
Narrow(user, filt, grouped, requery) ==
    IF user.rights = 9 /\ IsTrue(filt)
    THEN {p \in grouped : p.project_leader_id = user.user_id}
    ELSE IF user.rights = 8
    THEN LET user_ids == {u.user_id : u \in get_users(TRUE, user.org_id)}
         IN  {p \in grouped :
                 IF Truthy(filt) THEN p.project_leader_id = user.user_id
                                 ELSE p.project_leader_id \in user_ids}
    ELSE IF user.rights <= 3
    THEN IF Truthy(filt)
         THEN {p \in requery : p.project_leader_id = user.user_id}
         ELSE requery
    ELSE grouped

\* The returned list is kept as the set of its rows.
get_projects(user, filt, active) ==
    /\ \E grouped \in GroupByProject(WhereActive(ToInt(active))) :
       \E requery \in IF user.rights <= 3
                       THEN GroupByProject(TeamJoin(user, ToInt(active)))
                       ELSE {{}} :
          last' = [op |-> "get_projects", user |-> user, filt |-> filt,
                   active |-> active,
                   result |-> Narrow(user, filt, grouped, requery)]
    /\ UNCHANGED <<today, irl_data, next_ass_id, action_points, next_ap_id,
                   project_teams, next_team_id, users, held>>
    /\ UNCHANGED shell_vars

-----------------------------------------------------------------------------
(* User accounts: add_user, validate_user, change_user_password and the    *)
(* callbacks on_add_new_user and change_password.  A callback that commits *)
(* more than once is one action per commit: other sessions run between its *)
(* commits and see what it has committed so far.                           *)

Usernames == {"ann", "dan", "eve", "fay"}
Passwords == {"pw1", "pw2"}

\* A user provisioned without a password (has_password() tells such users
\* apart so that they can be asked for one at their first login).
Provisioned ==
    [user_id |-> 4, username |-> "eve", password |-> NoPassword,
     rights |-> 2, active |-> 1, org_id |-> 1]

\* An autoincrementing integer primary key over rows that are never deleted.
NextKey(ids) ==
    IF ids = {} THEN 1
    ELSE (CHOOSE m \in ids : \A i \in ids : i <= m) + 1

\* exists = query(User).filter_by(username=new_user.username).first()
UserExists(username) == \E u \in users : u.username = username

\* query(User).filter(User.username == username).first(), None if no row.
UserNamed(username) ==
    IF UserExists(username)
    THEN CHOOSE u \in users : u.username = username
    ELSE NoUser

\* user = base.User(); user.username = ...; user.rights = permissions;
\* user.active = 1; user.org_id = org_id
NewUser(username, permissions, org_id) ==
    [user_id |-> 0, username |-> username, password |-> NoPassword,
     rights |-> permissions, active |-> 1, org_id |-> org_id]

\* new_user.password = hashed_password; session.add(new_user); commit()
StoredUser(new_user, password) ==
    [new_user EXCEPT !.user_id = NextKey({u.user_id : u \in users}),
                     !.password = hashpw(password)]

\* add_user up to its first commit, for a username not yet stored: the User
\* row is committed and the call goes on for `caller`.
add_user(s, caller, new_user, password, locals) ==
    /\ ~UserExists(new_user.username)
    /\ NextKey({u.user_id : u \in users}) <= MaxUserId
    /\ users' = users \cup {StoredUser(new_user, password)}
    /\ running' = [running EXCEPT ![s] =
                      [pc |-> "add_user", caller |-> caller,
                       username |-> new_user.username, locals |-> locals]]
    /\ last' = [op |-> "add_user", committed |-> "User"]
    /\ UNCHANGED <<user_settings, organisations, faculties, departments,
                   owner_org_id, ss>>
    /\ UNCHANGED project_vars

\* on_add_new_user: status 0 if the passwords differ, 2 if add_user returns
\* None (the username exists); otherwise add_user's first commit.
on_add_new_user(s, username, pw1, pw2, permissions, org_id) ==
    /\ running[s] = Idle
    /\ IF pw1 # pw2
       THEN /\ ss' = [ss EXCEPT ![s].add_new_user_status = "0"]
            /\ last' = [op |-> "on_add_new_user", status |-> "0",
                        wrote |-> {}]
            /\ UNCHANGED <<users, user_settings, organisations, faculties,
                           departments, owner_org_id, running>>
            /\ UNCHANGED project_vars
       ELSE IF UserExists(username)
       THEN /\ ss' = [ss EXCEPT ![s].add_new_user_status = "2"]
            /\ last' = [op |-> "on_add_new_user", status |-> "2",
                        wrote |-> {}]
            /\ UNCHANGED <<users, user_settings, organisations, faculties,
                           departments, owner_org_id, running>>
            /\ UNCHANGED project_vars
       ELSE add_user(s, "on_add_new_user",
                     NewUser(username, permissions, org_id), pw1,
                     [wrote |-> {}])

\* add_user from its first commit on: the UserSettings row of the user it
\* finds under the username, the second commit, and the return to the caller.
\* on_add_new_user then reports status 1; on_init_system goes on to the
\* system settings.
add_user_settings(s) ==
    /\ running[s].pc = "add_user"
    /\ LET new_user == UserNamed(running[s].username)
           id == NextKey({t.id : t \in user_settings})
       IN  /\ user_settings' = user_settings \cup
                  {NewUserSettings(id, new_user.user_id)}
           /\ IF running[s].caller = "on_add_new_user"
              THEN /\ running' = [running EXCEPT ![s] = Idle]
                   /\ ss' = [ss EXCEPT ![s].add_new_user_status = "1"]
              ELSE /\ running' = [running EXCEPT ![s] =
                          [pc |-> "settings", user |-> new_user,
                           locals |-> running[s].locals]]
                   /\ ss' = ss
           /\ last' = [op |-> "add_user", committed |-> "UserSettings",
                       new_user |-> new_user]
    /\ UNCHANGED <<users, organisations, faculties, departments,
                   owner_org_id>>
    /\ UNCHANGED project_vars

\* validate_user(user, password): what it raises and what it returns.
\* db_user.password.encode('utf-8') on a NULL password raises AttributeError.
ValidateUser(username, password) ==
    LET db_user == UserNamed(username)
    IN  IF db_user = NoUser
        THEN [raised |-> NoneText, db_user |-> NoUser]
        ELSE IF db_user.password = NoPassword
        THEN [raised |-> "AttributeError", db_user |-> NoUser]
        ELSE IF checkpw(password, db_user.password)
        THEN [raised |-> NoneText, db_user |-> db_user]
        ELSE [raised |-> NoneText, db_user |-> NoUser]

validate_user(username, password) ==
    /\ last' = [op |-> "validate_user", username |-> username,
                password |-> password,
                raised |-> ValidateUser(username, password).raised,
                db_user |-> ValidateUser(username, password).db_user]
    /\ UNCHANGED <<users, user_settings, organisations, faculties,
                   departments, owner_org_id, ss, running>>
    /\ UNCHANGED project_vars

\* update(User).where(User.user_id == user.user_id).values(password=hashed)
SetPassword(user_id, password) ==
    {IF u.user_id = user_id THEN [u EXCEPT !.password = hashpw(password)]
                            ELSE u : u \in users}

\* Whose password change_password goes on to change once the new passwords
\* match and the acting user is verified, or the exception it raises first:
\* `username` is bound only under `if admin:`, and change_user_password reads
\* user.user_id of what get_user returned.
PwUser(user, admin, username) ==
    IF user.rights = 9
    THEN IF ~admin
         THEN [raised |-> "UnboundLocalError", pw_user |-> NoUser]
         ELSE IF UserNamed(username) = NoUser
         THEN [raised |-> "AttributeError", pw_user |-> NoUser]
         ELSE [raised |-> NoneText, pw_user |-> UserNamed(username)]
    ELSE [raised |-> NoneText, pw_user |-> user]

\* change_password(user, admin) on a submitted form.  The outcome is the
\* message shown, or the exception that ends the run.
change_password(user, admin, username, pw0, pw1, pw2) ==
    LET verified == ValidateUser(user.username, pw0)
        target == PwUser(user, admin, username)
        outcome ==
            IF pw1 # pw2 THEN "New passwords don't match!"
            ELSE IF verified.raised # NoneText THEN verified.raised
            ELSE IF verified.db_user = NoUser THEN "Old password incorrect!"
            ELSE IF target.raised # NoneText THEN target.raised
            ELSE "Password successfully changed!"
    IN  /\ users' = IF outcome = "Password successfully changed!"
                    THEN SetPassword(target.pw_user.user_id, pw1)
                    ELSE users
        /\ last' = [op |-> "change_password", outcome |-> outcome]
        /\ UNCHANGED <<user_settings, organisations, faculties, departments,
                       owner_org_id, ss, running>>
        /\ UNCHANGED project_vars

-----------------------------------------------------------------------------
(* The application shell (rn_irl.py): the page registry, the role-based    *)
(* menu and what one run of the script presents to a session.              *)

\* Python's None where a list of pages is expected, and a list of pages.
NoPages == [returns |-> "None", pages |-> <<>>]
PageList(pages) == [returns |-> "list", pages |-> pages]

\* Fault variant of the menu: rights 8 is given the Admin Tools page too.
get_tools_n_settingsSuperAdmin(user) ==
    IF user.rights < 2 THEN PageList(<<"User Settings">>)
    ELSE IF user.rights = 2
    THEN PageList(<<"Project Tools", "Reports", "User Settings">>)
    ELSE IF user.rights \in {6, 7} THEN PageList(<<"User Settings">>)
    ELSE IF user.rights \in {8, 9}
    THEN PageList(<<"Project Tools", "Reports", "Admin Tools",
                    "User Settings", "System Settings">>)
    ELSE NoPages

get_tools_n_settings(user) ==
    IF user.rights < 2 THEN PageList(<<"User Settings">>)
    ELSE IF user.rights = 2
    THEN PageList(<<"Project Tools", "Reports", "User Settings">>)
    ELSE IF user.rights = 6 THEN PageList(<<"User Settings">>)
    ELSE IF user.rights = 7 THEN PageList(<<"User Settings">>)
    ELSE IF user.rights = 8
    THEN PageList(<<"Project Tools", "Reports", "User Settings">>)
    ELSE IF user.rights = 9
    THEN PageList(<<"Project Tools", "Reports", "Admin Tools",
                    "User Settings", "System Settings">>)
    ELSE NoPages

\* The titles of a list of pages.
Titles(pages) == {pages[i] : i \in 1..Len(pages)}

\* st.navigation(sections): the pages of all sections.  It iterates over
\* every section's list, so a section that is None makes it raise and no
\* page is registered.
Navigation(sections) ==
    IF \E i \in 1..Len(sections) : sections[i] = NoPages
    THEN [raised |-> "TypeError", pages |-> {}]
    ELSE [raised |-> NoneText,
          pages |-> UNION {Titles(sections[i].pages) :
                              i \in 1..Len(sections)}]

\* One run of the script for a session: what it presents (the bootstrap UI
\* or the registered pages), whether pg.run() dispatches a page, and the
\* exception that ends the run, if any.
Startup(session_state) ==
    IF owner_org_id = 0
    THEN [shown |-> {"bootstrap"}, ran |-> FALSE, raised |-> NoneText]
    ELSE LET pg == IF session_state.status # "verified"
                   THEN Navigation(<<PageList(<<"Login">>),
                                     PageList(<<"Introduction">>)>>)
                   ELSE Navigation(
                           <<PageList(<<"Logout">>),
                             PageList(<<"Project Assessment",
                                        "Project Portfolio">>),
                             get_tools_n_settings(session_state.user),
                             PageList(<<"Introduction">>)>>)
         IN  [shown |-> pg.pages, ran |-> pg.raised = NoneText,
              raised |-> pg.raised]

rn_irl(s) ==
    /\ running[s] = Idle
    /\ ss' = [ss EXCEPT ![s].shown = Startup(ss[s]).shown]
    /\ last' = [op |-> "rn_irl", session |-> s, ran |-> Startup(ss[s]).ran,
                raised |-> Startup(ss[s]).raised,
                tools |-> IF ss[s].status = "verified"
                          THEN get_tools_n_settings(ss[s].user)
                          ELSE NoPages]
    /\ UNCHANGED <<users, user_settings, organisations, faculties,
                   departments, owner_org_id, running>>
    /\ UNCHANGED project_vars

\* The Login page: validate_user, and on success the session is given the
\* user and marked verified.
login(s, username, password) ==
    /\ running[s] = Idle
    /\ "Login" \in ss[s].shown
    /\ LET v == ValidateUser(username, password)
       IN  /\ v.raised = NoneText
           /\ ss' = IF v.db_user = NoUser THEN ss
                    ELSE [ss EXCEPT ![s].status = "verified",
                                    ![s].user = v.db_user]
    /\ last' = [op |-> "login"]
    /\ UNCHANGED <<users, user_settings, organisations, faculties,
                   departments, owner_org_id, running>>
    /\ UNCHANGED project_vars

\* The Logout page clears the verification.
logout(s) ==
    /\ running[s] = Idle
    /\ "Logout" \in ss[s].shown
    /\ ss' = [ss EXCEPT ![s].status = "unverified"]
    /\ last' = [op |-> "logout"]
    /\ UNCHANGED <<users, user_settings, organisations, faculties,
                   departments, owner_org_id, running>>
    /\ UNCHANGED project_vars

-----------------------------------------------------------------------------
(* The first-run bootstrap: on_init_system, one action per commit.  The    *)
(* locals of a call carry, besides the values the code holds, the rows the *)
(* call has inserted so far (wrote) and whether the owner organisation was *)
(* unset and the username free when the button was pressed (pre).          *)

\* The row query(...).filter(...).first() returns: the one stored first.
FirstId(ids) == CHOOSE m \in ids : \A i \in ids : m <= i

\* add_org's answer over the organisations stored after its commit.
add_org(stored, org_name) ==
    FirstId({o.org_id : o \in {x \in stored : x.org_name = org_name}})

\* The commit on_init_system makes next, after the organisation (and the
\* faculty, if after = "add_fac") is stored.
NextCommit(after, fac, dep) ==
    IF after = "add_org" /\ fac # "" THEN "add_fac"
    ELSE IF dep # "" THEN "add_dep"
    ELSE "call_add_user"

\* on_init_system up to its first commit: status 0 if the passwords differ,
\* otherwise add_org.
on_init_system(s, username, pw1, pw2, permissions, org, fac, dep) ==
    /\ running[s] = Idle
    /\ "bootstrap" \in ss[s].shown
    /\ IF pw1 # pw2
       THEN /\ ss' = [ss EXCEPT ![s].add_new_user_status = "0"]
            /\ last' = [op |-> "on_init_system", session |-> s,
                        status |-> "0", wrote |-> {}]
            /\ UNCHANGED <<organisations, running>>
       ELSE LET new_id == NextKey({o.org_id : o \in organisations})
                stored == organisations \cup
                              {[org_id |-> new_id, org_name |-> org]}
            IN  /\ new_id <= MaxOrgId
                /\ organisations' = stored
                /\ running' = [running EXCEPT ![s] =
                      [pc |-> NextCommit("add_org", fac, dep),
                       locals |->
                          [username |-> username, pw1 |-> pw1,
                           permissions |-> permissions,
                           fac |-> fac, dep |-> dep,
                           org_id |-> add_org(stored, org),
                           fac_id |-> 0, dep_id |-> 0,
                           wrote |-> {<<"Organisation", new_id>>},
                           pre |-> owner_org_id = 0
                                   /\ ~UserExists(username)]]]
                /\ last' = [op |-> "add_org"]
                /\ ss' = ss
    /\ UNCHANGED <<users, user_settings, faculties, departments,
                   owner_org_id>>
    /\ UNCHANGED project_vars

\* fac_id = base.add_fac(org_id, ss.new_user_fac)
on_init_system_add_fac(s) ==
    /\ running[s].pc = "add_fac"
    /\ LET l == running[s].locals
           new_id == NextKey({f.fac_id : f \in faculties})
           stored == faculties \cup
                         {[fac_id |-> new_id, org_id |-> l.org_id,
                           fac_name |-> l.fac]}
           fac_id == FirstId({f.fac_id : f \in
                        {x \in stored : /\ x.org_id = l.org_id
                                        /\ x.fac_name = l.fac}})
       IN  /\ faculties' = stored
           /\ running' = [running EXCEPT ![s] =
                 [pc |-> NextCommit("add_fac", l.fac, l.dep),
                  locals |-> [l EXCEPT
                     !.fac_id = fac_id,
                     !.wrote = @ \cup {<<"Faculty", new_id>>}]]]
    /\ last' = [op |-> "add_fac"]
    /\ UNCHANGED <<users, user_settings, organisations, departments,
                   owner_org_id, ss>>
    /\ UNCHANGED project_vars

\* dep_id = base.add_dep(fac_id, ss.new_user_dep)
on_init_system_add_dep(s) ==
    /\ running[s].pc = "add_dep"
    /\ LET l == running[s].locals
           new_id == NextKey({d.dep_id : d \in departments})
           stored == departments \cup
                         {[dep_id |-> new_id, fac_id |-> l.fac_id,
                           dep_name |-> l.dep]}
           dep_id == FirstId({d.dep_id : d \in
                        {x \in stored : /\ x.fac_id = l.fac_id
                                        /\ x.dep_name = l.dep}})
       IN  /\ departments' = stored
           /\ running' = [running EXCEPT ![s] =
                 [pc |-> "call_add_user",
                  locals |-> [l EXCEPT
                     !.dep_id = dep_id,
                     !.wrote = @ \cup {<<"Department", new_id>>}]]]
    /\ last' = [op |-> "add_dep"]
    /\ UNCHANGED <<users, user_settings, organisations, faculties,
                   owner_org_id, ss>>
    /\ UNCHANGED project_vars

\* user = base.add_user(user, pw1): status 2 if it returns None (the
\* username exists), otherwise add_user's first commit.
on_init_system_add_user(s) ==
    /\ running[s].pc = "call_add_user"
    /\ LET l == running[s].locals
       IN  IF UserExists(l.username)
           THEN /\ ss' = [ss EXCEPT ![s].add_new_user_status = "2"]
                /\ running' = [running EXCEPT ![s] = Idle]
                /\ last' = [op |-> "on_init_system", session |-> s,
                            status |-> "2", wrote |-> l.wrote]
                /\ UNCHANGED <<users, user_settings, organisations,
                               faculties, departments, owner_org_id>>
                /\ UNCHANGED project_vars
           ELSE add_user(s, "on_init_system",
                         NewUser(l.username, l.permissions, l.org_id),
                         l.pw1,
                         [l EXCEPT !.wrote = @ \cup
                             {<<"User",
                                NextKey({u.user_id : u \in users})>>}])

\* After add_user has returned the user: settings.owner_org_id = org_id;
\* settings.update(); ss.status = 'verified'; ss.user = user
on_init_system_update(s) ==
    /\ running[s].pc = "settings"
    /\ owner_org_id' = running[s].locals.org_id
    /\ ss' = [ss EXCEPT ![s].add_new_user_status = "1",
                        ![s].status = "verified",
                        ![s].user = running[s].user]
    /\ running' = [running EXCEPT ![s] = Idle]
    /\ last' = [op |-> "on_init_system", session |-> s, status |-> "1",
                wrote |-> running[s].locals.wrote,
                pre |-> running[s].locals.pre]
    /\ UNCHANGED <<users, user_settings, organisations, faculties,
                   departments>>
    /\ UNCHANGED project_vars

-----------------------------------------------------------------------------
(* delete_irl_ass: the deletion form.  Every change of a widget reruns the *)
(* function, so the form on screen is the one rendered from the session's  *)
(* current widget values.                                                  *)

\* Fault variant of the gate: the second confirmation is not asked for.
del_disOneConfirmation(session_state) ==
    ~(/\ Cardinality(session_state.assessments_to_delete) > 0
      /\ session_state.i_know_what_im_doing)

\* del_dis = not(irl_asses and yes and yes_yes)
del_dis(session_state) ==
    ~(/\ Cardinality(session_state.assessments_to_delete) > 0
      /\ session_state.i_know_what_im_doing
      /\ session_state.i_really_know)

\* The multiselect over the history of the selected project.
select_assessments_to_delete(s, project_no, ids) ==
    /\ ids \subseteq {r.id : r \in {x \in irl_data :
                                       x.project_no = project_no}}
    /\ ss' = [ss EXCEPT ![s].assessments_to_delete = ids]
    /\ last' = [op |-> "multiselect"]
    /\ UNCHANGED <<users, user_settings, organisations, faculties,
                   departments, owner_org_id, running>>
    /\ UNCHANGED project_vars

check_i_know_what_im_doing(s, value) ==
    /\ ss' = [ss EXCEPT ![s].i_know_what_im_doing = value]
    /\ last' = [op |-> "checkbox"]
    /\ UNCHANGED <<users, user_settings, organisations, faculties,
                   departments, owner_org_id, running>>
    /\ UNCHANGED project_vars

check_i_really_know(s, value) ==
    /\ ss' = [ss EXCEPT ![s].i_really_know = value]
    /\ last' = [op |-> "checkbox"]
    /\ UNCHANGED <<users, user_settings, organisations, faculties,
                   departments, owner_org_id, running>>
    /\ UNCHANGED project_vars

\* A press of the button, which the form takes only while it is enabled:
\* the rerun finds st.button(...) true and deletes the selection.
delete_irl_ass(s) ==
    /\ ~del_dis(ss[s])
    /\ delete_assessments(ss[s].assessments_to_delete)

-----------------------------------------------------------------------------
(* ap_completed(irl_ass_id)                                                *)

\* utils.datetime2dbdate(datetime.now()): zero-padded 'YYYY-MM-DD', kept as
\* the four-digit year and the digits of the month and of the day.
datetime2dbdate(day) ==
    LET ymd == Calendar[day + 1]
    IN  <<ymd[1]>> \o Pad2(ymd[2]) \o Pad2(ymd[3])

\* func.sum(ActionPoint.progress) over no row is NULL, which equals no number.
NoSum == -1

RECURSIVE SumProgress(_)
SumProgress(aps) ==
    IF aps = {} THEN 0
    ELSE LET ap == CHOOSE a \in aps : TRUE
         IN  ap.progress + SumProgress(aps \ {ap})

\* completion = query(func.sum(ActionPoint.progress)).filter(...).scalar()
Completion(aps) == IF aps = {} THEN NoSum ELSE SumProgress(aps)

\* Fault variant: one completed action point is enough.
CompletedIfAny(aps) ==
    \/ \E ap \in aps : ap.progress = 100
    \/ Cardinality(aps) = 0

\* completed = (len(aps)*100 == completion) or len(aps) == 0
Completed(aps) ==
    \/ Cardinality(aps) * 100 = Completion(aps)
    \/ Cardinality(aps) = 0

ap_completed(irl_ass_id) ==
    /\ \E r \in irl_data : r.id = irl_ass_id
    /\ LET irl == CHOOSE r \in irl_data : r.id = irl_ass_id
       IN  last' = [op |-> "ap_completed", irl_ass_id |-> irl_ass_id,
                    completed |->
                       IF datetime2dbdate(today) = irl.assessment_date
                       THEN TRUE
                       ELSE Completed(ApsOf(action_points, irl_ass_id))]
    /\ UNCHANGED <<today, irl_data, next_ass_id, action_points, next_ap_id,
                   project_teams, next_team_id, users, held>>
    /\ UNCHANGED shell_vars

-----------------------------------------------------------------------------
(* The value matrix (table "IRL") and the four value estimates of an       *)
(* assessment.                                                             *)

IRLTypes == <<"CRL", "TRL", "BRL", "IPRL", "TMRL", "FRL">>
IRLLevels == 1..9

\* The weight of a scale in the matrix below: the powers of ten, so that a
\* sum of cells shows which cells went into it.
RECURSIVE Weight(_)
Weight(i) == IF i = 1 THEN 1 ELSE 10 * Weight(i - 1)

\* The IRL table: one row per (IRLType, Level).
IRL ==
    {[IRLType |-> IRLTypes[i], Level |-> l,
      LicenseValue |-> l * Weight(i),
      StartupValue |-> 2 * l * Weight(i) + 1] :
        i \in 1..Len(IRLTypes), l \in IRLLevels}

\* The levels the filter of calc_license_value / calc_startup_value names.
CurrentLevels(self) ==
    [CRL |-> self.crl, TRL |-> self.trl, BRL |-> self.brl,
     IPRL |-> self.iprl, TMRL |-> self.tmrl, FRL |-> self.frl]

\* Fault variant of the target filter: it names the current levels.
TargetLevelsCurrent(self) ==
    [CRL |-> self.crl, TRL |-> self.trl, BRL |-> self.brl,
     IPRL |-> self.iprl, TMRL |-> self.tmrl, FRL |-> self.frl]

\* The levels the filter of the two *_target_value methods names.
TargetLevels(self) ==
    [CRL |-> self.crl_target, TRL |-> self.trl_target,
     BRL |-> self.brl_target, IPRL |-> self.iprl_target,
     TMRL |-> self.tmrl_target, FRL |-> self.frl_target]

\* The rows the filter keeps: (IRLType == t) & (Level == level of t), for
\* any of the six types.
Filtered(levels) == {r \in IRL : r.Level = levels[r.IRLType]}

\* func.sum(column) over the rows; NULL over no row.
RECURSIVE SumColumn(_, _)
SumColumn(rows, column) ==
    IF rows = {} THEN 0
    ELSE LET r == CHOOSE x \in rows : TRUE
         IN  r[column] + SumColumn(rows \ {r}, column)

ScalarSum(rows, column) ==
    IF rows = {} THEN NoSum ELSE SumColumn(rows, column)

calc_license_value(s) ==
    /\ held[s] # NoCopy
    /\ last' = [op |-> "calc_license_value",
                value |-> ScalarSum(Filtered(CurrentLevels(held[s])),
                                    "LicenseValue")]
    /\ UNCHANGED project_vars
    /\ UNCHANGED users
    /\ UNCHANGED shell_vars

calc_license_target_value(s) ==
    /\ held[s] # NoCopy
    /\ last' = [op |-> "calc_license_target_value",
                value |-> ScalarSum(Filtered(TargetLevels(held[s])),
                                    "LicenseValue")]
    /\ UNCHANGED project_vars
    /\ UNCHANGED users
    /\ UNCHANGED shell_vars

calc_startup_value(s) ==
    /\ held[s] # NoCopy
    /\ last' = [op |-> "calc_startup_value",
                value |-> ScalarSum(Filtered(CurrentLevels(held[s])),
                                    "StartupValue")]
    /\ UNCHANGED project_vars
    /\ UNCHANGED users
    /\ UNCHANGED shell_vars

calc_startup_target_value(s) ==
    /\ held[s] # NoCopy
    /\ last' = [op |-> "calc_startup_target_value",
                value |-> ScalarSum(Filtered(TargetLevels(held[s])),
                                    "StartupValue")]
    /\ UNCHANGED project_vars
    /\ UNCHANGED users
    /\ UNCHANGED shell_vars

-----------------------------------------------------------------------------
(* ActionPoint.copy, copy_aps and ActionPoint.update.  copy_aps reads the  *)
(* action points of the old assessment once and then copies them one by    *)
(* one, each copy in a unit of work of its own (ActionPoint.insert).       *)

\* Fault variant of the copy: the copy starts again at progress 0.
CopyRestarted(self, ass_id, ap_id) ==
    [ap_id |-> ap_id, assessment_id |-> ass_id, irl_type |-> self.irl_type,
     action_point |-> self.action_point, responsible |-> self.responsible,
     due_date |-> self.due_date, progress |-> 0, comment |-> self.comment]

\* ActionPoint.copy(ass_id): new_self, stored under the next key.
Copy(self, ass_id, ap_id) ==
    [ap_id |-> ap_id, assessment_id |-> ass_id, irl_type |-> self.irl_type,
     action_point |-> self.action_point, responsible |-> self.responsible,
     due_date |-> self.due_date, progress |-> self.progress,
     comment |-> self.comment]

\* One turn of `for old_ap in old_aps: old_ap.copy(new_ass_id)` for the call
\* whose locals are given; the call returns after the last copy.
CopyNext(s, call) ==
    LET old_ap == CHOOSE ap \in call.todo :
                      \A other \in call.todo : ap.ap_id <= other.ap_id
        todo == call.todo \ {old_ap}
        made == call.made \cup {next_ap_id}
    IN  /\ next_ap_id <= MaxCopyId
        /\ action_points' = action_points \cup
               {Copy(old_ap, call.new_ass_id, next_ap_id)}
        /\ next_ap_id' = next_ap_id + 1
        /\ IF todo = {}
           THEN /\ running' = [running EXCEPT ![s] = Idle]
                /\ last' = [op |-> "copy_aps",
                            old_ass_id |-> call.old_ass_id,
                            new_ass_id |-> call.new_ass_id,
                            old_aps |-> call.old_aps, made |-> made]
           ELSE /\ running' = [running EXCEPT ![s] =
                       [pc |-> "copy_aps",
                        locals |-> [call EXCEPT !.todo = todo,
                                                !.made = made]]]
                /\ last' = [op |-> "ap_copy"]

\* copy_aps up to its first commit (or to its return, if the old assessment
\* has no action point).
copy_aps(s, old_ass_id, new_ass_id) ==
    /\ running[s] = Idle
    /\ LET old_aps == ApsOf(action_points, old_ass_id)
       IN  IF old_aps = {}
           THEN /\ last' = [op |-> "copy_aps", old_ass_id |-> old_ass_id,
                            new_ass_id |-> new_ass_id, old_aps |-> {},
                            made |-> {}]
                /\ UNCHANGED <<action_points, next_ap_id, running>>
           ELSE CopyNext(s, [old_ass_id |-> old_ass_id,
                             new_ass_id |-> new_ass_id,
                             old_aps |-> old_aps, todo |-> old_aps,
                             made |-> {}])
    /\ UNCHANGED <<today, irl_data, next_ass_id, project_teams, next_team_id,
                   users, held>>
    /\ UNCHANGED <<user_settings, organisations, faculties, departments,
                   owner_org_id, ss>>

\* copy_aps from one commit to the next.
ap_copy(s) ==
    /\ running[s].pc = "copy_aps"
    /\ CopyNext(s, running[s].locals)
    /\ UNCHANGED <<today, irl_data, next_ass_id, project_teams, next_team_id,
                   users, held>>
    /\ UNCHANGED <<user_settings, organisations, faculties, departments,
                   owner_org_id, ss>>

\* ActionPoint.update: the five columns of uv are written onto the row with
\* the object's ap_id.
ap_update(self) ==
    /\ action_points' =
           {IF ap.ap_id = self.ap_id
            THEN [ap EXCEPT !.action_point = self.action_point,
                            !.responsible = self.responsible,
                            !.due_date = self.due_date,
                            !.progress = self.progress,
                            !.comment = self.comment]
            ELSE ap : ap \in action_points}
    /\ last' = [op |-> "ap_update"]
    /\ UNCHANGED <<today, irl_data, next_ass_id, next_ap_id, project_teams,
                   next_team_id, users, held>>
    /\ UNCHANGED shell_vars

-----------------------------------------------------------------------------
(* The assessment store worked by one editing session: projects are        *)
(* created, loaded, edited, saved, (de)activated and deleted.              *)

Editor == "s1"

Next ==
    \/ Tick
    \/ \E p \in ProjectNos :
          LET self == NewAssessment(p, 1, 1, NoneText)
          IN  CanInsert(self, MaxAssId) /\ insert(self)
    \/ \E i \in 1..MaxAssId : get_irl(Editor, i)
    \/ \E c \in Levels : EditInMemory(Editor, c, held[Editor].project_notes)
    \/ \E o \in BOOLEAN, k \in BOOLEAN :
          CanUpdate(Editor, o, MaxAssId) /\ update(Editor, o, k)
    \/ \E ps \in (SUBSET ProjectNos) \ {{}}, a \in BOOLEAN :
          change_project_status(ps, a)
    \/ \E ids \in (SUBSET (1..(next_ass_id - 1))) \ {{}} :
          delete_assessments(ids)

Spec == Init /\ [][Next]_vars

-----------------------------------------------------------------------------
(* The same store worked by several sessions, each holding its own copy.   *)

NextSessions ==
    \/ Tick
    \/ \E p \in ProjectNos :
          LET self == NewAssessment(p, 1, 1, NoneText)
          IN  CanInsert(self, MaxAssId) /\ insert(self)
    \/ \E s \in Sessions, i \in 1..MaxAssId : get_irl(s, i)
    \/ \E s \in Sessions, o \in BOOLEAN, k \in BOOLEAN :
          CanUpdate(s, o, MaxAssId) /\ update(s, o, k)
    \/ \E ps \in (SUBSET ProjectNos) \ {{}}, a \in BOOLEAN :
          change_project_status(ps, a)
    \/ \E ids \in (SUBSET (1..(next_ass_id - 1))) \ {{}} :
          delete_assessments(ids)

SpecSessions == Init /\ [][NextSessions]_vars

-----------------------------------------------------------------------------
(* Assessments with their action points, and their deletion.               *)

NextDelete ==
    \/ Tick
    \/ \E p \in ProjectNos :
          LET self == NewAssessment(p, 1, 1, NoneText)
          IN  CanInsert(self, MaxAssId) /\ insert(self)
    \/ \E i \in 1..MaxAssId : get_irl(Editor, i)
    \/ \E o \in BOOLEAN, k \in BOOLEAN :
          CanUpdate(Editor, o, MaxAssId) /\ update(Editor, o, k)
    \/ ap_insert(Editor, 50)
    \/ \E ids \in (SUBSET (1..(next_ass_id - 1))) \ {{}} :
          delete_assessments(ids)

SpecDelete == Init /\ [][NextDelete]_vars

-----------------------------------------------------------------------------
(* Project listing: projects with leaders, users that are (de)activated,   *)
(* and the listing each caller gets.                                       *)

\* The user that leads each project, the users that are put on teams and the
\* user names the administrator (de)activates.
Leader == [p \in ProjectNos |-> IF p = 101 THEN 1 ELSE 2]
Members == {1}
Deactivated == {"bob"}

\* The User object a session passes: the Users row of one of the users ids,
\* its rights field holding whatever rights the user had when the session
\* loaded it.
UserObjects(ids, rights) ==
    {[u EXCEPT !.rights = r] : u \in {v \in users : v.user_id \in ids},
                               r \in rights}

\* Callers of every rights class above 3: a project leader and a user of
\* another organisation.
Callers == {1, 3}

NextProjects ==
    \/ Tick
    \/ \E p \in ProjectNos :
          LET self == NewAssessment(p, Leader[p], 1, NoneText)
          IN  CanInsert(self, MaxAssId) /\ insert(self)
    \/ \E i \in 1..MaxAssId : get_irl(Editor, i)
    \/ \E o \in BOOLEAN :
          CanUpdate(Editor, o, MaxAssId) /\ update(Editor, o, FALSE)
    \/ \E p \in ProjectNos, a \in BOOLEAN : change_project_status({p}, a)
    \/ \E u \in UserObjects(Callers, RightsVals), f \in FiltVals,
          a \in BOOLEAN :
          get_projects(u, f, a)

SpecProjects == Init /\ [][NextProjects]_vars

-----------------------------------------------------------------------------
(* Project listing for callers of rights 9.                                *)

AdminRights == {9}

NextAdmin ==
    \/ Tick
    \/ \E p \in ProjectNos :
          LET self == NewAssessment(p, Leader[p], 1, NoneText)
          IN  CanInsert(self, MaxAssId) /\ insert(self)
    \/ \E i \in 1..MaxAssId : get_irl(Editor, i)
    \/ \E o \in BOOLEAN :
          CanUpdate(Editor, o, MaxAssId) /\ update(Editor, o, FALSE)
    \/ \E p \in ProjectNos, a \in BOOLEAN : change_project_status({p}, a)
    \/ \E u \in UserObjects(UserIds, AdminRights), f \in FiltVals,
          a \in BOOLEAN :
          get_projects(u, f, a)

SpecAdmin == Init /\ [][NextAdmin]_vars

-----------------------------------------------------------------------------
(* Project listing for a caller of rights 8: projects led by users of two  *)
(* organisations, some of them deactivated.                                *)

OrgRights == {8}

NextOrg ==
    \/ Tick
    \/ \E p \in ProjectNos :
          LET self == NewAssessment(p, Leader[p], 1, NoneText)
          IN  CanInsert(self, MaxAssId) /\ insert(self)
    \/ \E i \in 1..MaxAssId : get_irl(Editor, i)
    \/ \E o \in BOOLEAN :
          CanUpdate(Editor, o, MaxAssId) /\ update(Editor, o, FALSE)
    \/ \E p \in ProjectNos, a \in BOOLEAN : change_project_status({p}, a)
    \/ \E a \in BOOLEAN : change_user_status(Deactivated, a)
    \/ \E u \in UserObjects(UserIds, OrgRights), f \in FiltVals,
          a \in BOOLEAN :
          get_projects(u, f, a)

SpecOrg == Init /\ [][NextOrg]_vars

-----------------------------------------------------------------------------
(* Project listing for team members: projects, their teams, and the        *)
(* listing a caller of rights <= 3 gets.                                   *)

TeamRights == {0, 3}

NextTeams ==
    \/ \E p \in ProjectNos :
          LET self == NewAssessment(p, Leader[p], 1, NoneText)
          IN  CanInsert(self, MaxAssId) /\ insert(self)
    \/ \E p \in ProjectNos, a \in BOOLEAN : change_project_status({p}, a)
    \/ \E p \in ProjectNos, u \in users :
          u.user_id \in Members /\ add_project_team(p, u)
    \/ \E t \in project_teams, a \in {0, 1} :
          team_update([t EXCEPT !.active = a])
    \/ \E u \in UserObjects(UserIds, TeamRights), f \in FiltVals,
          a \in BOOLEAN :
          get_projects(u, f, a)

SpecTeams == Init /\ [][NextTeams]_vars

-----------------------------------------------------------------------------
(* User accounts: users are added from two sessions and log-in attempts    *)
(* are validated.                                                          *)

InitAccounts == InitStore(InitUsers \cup {Provisioned}, InitOrganisations, 1)

NextAccounts ==
    \/ \E s \in Sessions, n \in {"ann", "dan", "fay"}, pw1 \in Passwords,
          pw2 \in Passwords :
          on_add_new_user(s, n, pw1, pw2, 2, 1)
    \/ \E s \in Sessions : add_user_settings(s)
    \/ \E n \in Usernames, pw \in Passwords : validate_user(n, pw)

SpecAccounts == InitAccounts /\ [][NextAccounts]_vars

-----------------------------------------------------------------------------
(* Password changes: by the users themselves and by an administrator for   *)
(* a named user.  The administrator's form is on the Admin Tools page,     *)
(* which only a user of rights 9 is given.                                 *)

NextPasswords ==
    \/ \E pw \in Passwords : on_add_new_user(Editor, "dan", pw, pw, 2, 1)
    \/ add_user_settings(Editor)
    \/ \E user \in users, pw0 \in Passwords, pw1 \in Passwords,
          pw2 \in Passwords :
          change_password(user, FALSE, NoneText, pw0, pw1, pw2)
    \/ \E user \in users, n \in {"ann", "fay"}, pw0 \in Passwords,
          pw1 \in Passwords, pw2 \in Passwords :
          user.rights = 9 /\ change_password(user, TRUE, n, pw0, pw1, pw2)

SpecPasswords == InitAccounts /\ [][NextPasswords]_vars

-----------------------------------------------------------------------------
(* The shell over an installed system with one user of every permission    *)
(* level, and over a fresh store that one session bootstraps.              *)

RightsLevels == 0..9
ShellNames ==
    <<"u0", "u1", "u2", "u3", "u4", "u5", "u6", "u7", "u8", "u9">>
ShellUsers ==
    {[user_id |-> r + 1, username |-> ShellNames[r + 1],
      password |-> hashpw("pw1"), rights |-> r, active |-> 1, org_id |-> 1] :
        r \in RightsLevels}

InitShell ==
    \/ InitStore({}, {}, 0)
    \/ InitStore(ShellUsers, InitOrganisations, 1)

NextShell ==
    \/ rn_irl(Editor)
    \/ \E r \in RightsLevels, pw \in Passwords :
          login(Editor, ShellNames[r + 1], pw)
    \/ \E pw \in Passwords : login(Editor, "root", pw)
    \/ logout(Editor)
    \/ \E pw1, pw2 \in Passwords :
          on_init_system(Editor, "root", pw1, pw2, 9, "KTH", "", "")
    \/ on_init_system_add_user(Editor)
    \/ add_user_settings(Editor)
    \/ on_init_system_update(Editor)

SpecShell == InitShell /\ [][NextShell]_vars

(* The bootstrap worked by two sessions on a fresh store.                  *)

OrgNames == {"KTH", "NTNU"}
\* The faculty and the department entered: none, or both.
Units == {<<"", "">>, <<"ITM", "IIP">>}
BootNames == {"root", "adm"}

InitBootstrap == InitStore({}, {}, 0)

NextBootstrap ==
    \/ \E s \in Sessions : rn_irl(s)
    \/ \E s \in Sessions, n \in BootNames, pw2 \in Passwords,
          org \in OrgNames, unit \in Units :
          on_init_system(s, n, "pw1", pw2, 9, org, unit[1], unit[2])
    \/ \E s \in Sessions : on_init_system_add_fac(s)
    \/ \E s \in Sessions : on_init_system_add_dep(s)
    \/ \E s \in Sessions : on_init_system_add_user(s)
    \/ \E s \in Sessions : add_user_settings(s)
    \/ \E s \in Sessions : on_init_system_update(s)
    \/ \E n \in BootNames, pw2 \in Passwords :
          /\ ss[Editor].status = "verified"
          /\ on_add_new_user(Editor, n, "pw1", pw2, 2,
                             ss[Editor].user.org_id)

SpecBootstrap == InitBootstrap /\ [][NextBootstrap]_vars

-----------------------------------------------------------------------------
(* The deletion form worked by one session.                                *)

NextDeleteForm ==
    \/ \E p \in ProjectNos :
          LET self == NewAssessment(p, 1, 1, NoneText)
          IN  CanInsert(self, MaxAssId) /\ insert(self)
    \/ \E i \in 1..MaxAssId : get_irl(Editor, i)
    \/ ap_insert(Editor, 50)
    \/ \E p \in ProjectNos, ids \in SUBSET (1..MaxAssId) :
          select_assessments_to_delete(Editor, p, ids)
    \/ \E value \in BOOLEAN : check_i_know_what_im_doing(Editor, value)
    \/ \E value \in BOOLEAN : check_i_really_know(Editor, value)
    \/ delete_irl_ass(Editor)

SpecDeleteForm == Init /\ [][NextDeleteForm]_vars

(* Assessments whose action points are at different stages.                *)

ProgressVals == {0, 50, 100}

NextCompleted ==
    \/ Tick
    \/ \E p \in ProjectNos :
          LET self == NewAssessment(p, 1, 1, NoneText)
          IN  CanInsert(self, MaxAssId) /\ insert(self)
    \/ \E i \in 1..MaxAssId : get_irl(Editor, i)
    \/ \E g \in ProgressVals : ap_insert(Editor, g)
    \/ \E i \in 1..MaxAssId : ap_completed(i)

SpecCompleted == Init /\ [][NextCompleted]_vars

-----------------------------------------------------------------------------
(* Assessments with every column filled in: their value estimates and the  *)
(* snapshots update() makes of them.                                       *)

\* An assessment of project_no as the assessment page hands it to insert():
\* the six levels and the six targets as given, every text column set.
Assessed(project_no, levels, targets) ==
    [id |-> 0, project_no |-> project_no, project_name |-> "Alpha",
     project_leader_id |-> 1, project_description |-> "first project",
     assessment_date |-> <<>>, project_notes |-> "note",
     crl |-> levels[1], trl |-> levels[2], brl |-> levels[3],
     iprl |-> levels[4], tmrl |-> levels[5], frl |-> levels[6],
     crl_notes |-> "crl note", trl_notes |-> "trl note",
     brl_notes |-> "brl note", iprl_notes |-> "iprl note",
     tmrl_notes |-> "tmrl note", frl_notes |-> "frl note",
     crl_target |-> targets[1], trl_target |-> targets[2],
     brl_target |-> targets[3], iprl_target |-> targets[4],
     tmrl_target |-> targets[5], frl_target |-> targets[6],
     crl_target_lead |-> "ann", trl_target_lead |-> "bob",
     brl_target_lead |-> "cat", iprl_target_lead |-> "dan",
     tmrl_target_lead |-> "eve", frl_target_lead |-> "fay",
     crl_target_duedate |-> getDate(0), trl_target_duedate |-> getDate(1),
     brl_target_duedate |-> getDate(0), iprl_target_duedate |-> getDate(1),
     tmrl_target_duedate |-> getDate(0), frl_target_duedate |-> getDate(1),
     plot_targets |-> 0, active |-> 1]

\* The levels an assessment is given: the lowest or the highest, per scale.
LevelChoices == [1..6 -> {1, 9}]

\* The targets that go with them: the levels themselves, their mirror
\* images, or the six middle levels.
TargetChoices(levels) ==
    {levels, [i \in 1..6 |-> 10 - levels[i]], <<3, 4, 5, 6, 7, 8>>}

NextValues ==
    \/ \E levels \in LevelChoices :
          \E targets \in TargetChoices(levels) :
             LET self == Assessed(101, levels, targets)
             IN  CanInsert(self, MaxAssId) /\ insert(self)
    \/ \E i \in 1..MaxAssId : get_irl(Editor, i)
    \/ calc_license_value(Editor)
    \/ calc_license_target_value(Editor)
    \/ calc_startup_value(Editor)
    \/ calc_startup_target_value(Editor)

SpecValues == Init /\ [][NextValues]_vars

NextSnapshot ==
    \/ Tick
    \/ \E p \in ProjectNos :
          LET self == Assessed(p, <<1, 2, 3, 4, 5, 6>>, <<4, 5, 6, 7, 8, 9>>)
          IN  CanInsert(self, MaxAssId) /\ insert(self)
    \/ \E i \in 1..MaxAssId : get_irl(Editor, i)
    \/ \E o \in BOOLEAN, k \in BOOLEAN :
          CanUpdate(Editor, o, MaxAssId) /\ update(Editor, o, k)

SpecSnapshot == Init /\ [][NextSnapshot]_vars

-----------------------------------------------------------------------------
(* Action points copied forward by one session.                            *)

NextCopy ==
    \/ \E p \in ProjectNos :
          LET self == NewAssessment(p, 1, 1, NoneText)
          IN  CanInsert(self, MaxAssId) /\ insert(self)
    \/ \E i \in 1..MaxAssId : get_irl(Editor, i)
    \/ \E g \in ProgressVals : ap_insert(Editor, g)
    \/ \E old_ass_id \in 1..MaxAssId, new_ass_id \in 1..MaxAssId :
          /\ old_ass_id # new_ass_id
          /\ \E r \in irl_data : r.id = new_ass_id
          /\ copy_aps(Editor, old_ass_id, new_ass_id)
    \/ ap_copy(Editor)

SpecCopy == Init /\ [][NextCopy]_vars

(* Action points and assessments worked by two sessions.                   *)

NextIntegrity ==
    \/ \E p \in ProjectNos :
          LET self == NewAssessment(p, 1, 1, NoneText)
          IN  CanInsert(self, MaxAssId) /\ insert(self)
    \/ \E s \in Sessions, i \in 1..MaxAssId : get_irl(s, i)
    \/ \E s \in Sessions : ap_insert(s, 50)
    \/ \E s \in Sessions :
          /\ \E r \in irl_data : r.id = 2
          /\ copy_aps(s, 1, 2)
    \/ \E s \in Sessions : ap_copy(s)
    \/ \E ap \in action_points :
          ap_update([ap EXCEPT !.progress = 100])
    \/ \E i \in 1..MaxAssId : delete_assessments({i})

SpecIntegrity == Init /\ [][NextIntegrity]_vars

-----------------------------------------------------------------------------
(* The history of one project: snapshots made by two sessions.             *)

NextHistory ==
    \/ Tick
    \/ LET self == NewAssessment(101, 1, 1, NoneText)
       IN  CanInsert(self, MaxSnapshotId) /\ insert(self)
    \/ \E s \in Sessions, i \in 1..MaxSnapshotId : get_irl(s, i)
    \/ \E s \in Sessions, o \in BOOLEAN :
          CanUpdate(s, o, MaxSnapshotId) /\ update(s, o, FALSE)

SpecHistory == Init /\ [][NextHistory]_vars

(* Two sessions editing the rows of one project.                           *)

NextRace ==
    \/ Tick
    \/ LET self == NewAssessment(101, 1, 1, NoneText)
       IN  CanInsert(self, MaxAssId) /\ insert(self)
    \/ \E s \in Sessions, i \in 1..MaxAssId : get_irl(s, i)
    \/ \E s \in Sessions, c \in Levels, n \in NotesVals :
          EditInMemory(s, c, n)
    \/ \E s \in Sessions, o \in BOOLEAN :
          CanUpdate(s, o, MaxAssId) /\ update(s, o, TRUE)

SpecRace == Init /\ [][NextRace]_vars

-----------------------------------------------------------------------------
(* Two administrators, each in a session of their own, changing the        *)
(* permission level and the status of users from the Admin Tools page.     *)

Administrators ==
    {[user_id |-> 1, username |-> "ann", password |-> hashpw("pw1"),
      rights |-> 9, active |-> 1, org_id |-> 1],
     [user_id |-> 2, username |-> "bob", password |-> hashpw("pw1"),
      rights |-> 9, active |-> 1, org_id |-> 1]}

\* The permission levels chosen in the form: Editor and Administrator.
NewLevels == {2, 9}

InitRights == InitStore(Administrators, InitOrganisations, 1)

NextRights ==
    \/ \E s \in Sessions : rn_irl(s)
    \/ \E s \in Sessions, u \in Administrators, pw \in Passwords :
          login(s, u.username, pw)
    \/ \E s \in Sessions : logout(s)
    \/ \E s \in Sessions, old_user \in users, rights \in NewLevels :
          /\ "Admin Tools" \in ss[s].shown
          /\ old_user.active = 1
          /\ change_user_rights(old_user, rights)
    \/ \E s \in Sessions, u \in users, active \in BOOLEAN :
          /\ "Admin Tools" \in ss[s].shown
          /\ u.active = ToInt(~active)
          /\ change_user_status({u.username}, active)

SpecRights == InitRights /\ [][NextRights]_vars

-----------------------------------------------------------------------------
(* Properties.                                                             *)

Ids(rows) == {r.id : r \in rows}

RowsOf(rows, project_no) == {r \in rows : r.project_no = project_no}

NewAssessments ==
    {NewAssessment(p, u, c, n) :
        p \in ProjectNos, u \in UserIds, c \in Levels, n \in NotesVals}

IdSets == (SUBSET (1..(MaxAssId + 1))) \ {{}}

\* result lists, of the stored rows carrying the flag active, exactly one
\* latest row of every project whose latest rows satisfy Keep, and nothing else.
Listing(result, active, Keep(_)) ==
    LET flagged == {r \in irl_data : r.active = active}
        IsLatest(r) == \A q \in RowsOf(flagged, r.project_no) :
                          ~DateLt(r.assessment_date, q.assessment_date)
    IN  /\ \A r \in result : r \in flagged /\ IsLatest(r) /\ Keep(r)
        /\ \A r1 \in result, r2 \in result :
              r1.project_no = r2.project_no => r1 = r2
        /\ \A p \in ProjectNos :
              (/\ RowsOf(flagged, p) # {}
               /\ \A r \in RowsOf(flagged, p) : IsLatest(r) => Keep(r))
              => \E r \in result : r.project_no = p

\* C1: insert() on a project_no no stored row carries adds exactly one row,
\* stamped with today's date, and returns no error; on a project_no some row
\* carries, active or not, it returns the 'Project already exists' error and
\* leaves the stored assessment rows unchanged.
C1_InsertOncePerProject ==
    [][\A self \in NewAssessments :
          insert(self) =>
             IF RowsOf(irl_data, self.project_no) # {}
             THEN /\ last'.error = "Project already exists in the database!"
                  /\ irl_data' = irl_data
             ELSE /\ last'.error = NoneText
                  /\ irl_data \subseteq irl_data'
                  /\ Cardinality(irl_data') = Cardinality(irl_data) + 1
                  /\ \A r \in irl_data' \ irl_data :
                        /\ r.project_no = self.project_no
                        /\ r.assessment_date = getDate(today)]_vars

\* C1 witness: an insert was refused for a project all of whose rows are
\* inactive.
C1_Witness ==
    /\ last.op = "insert"
    /\ last.error # NoneText
    /\ RowsOf(irl_data, last.project_no) # {}
    /\ \A r \in RowsOf(irl_data, last.project_no) : r.active = 0

\* C2: update(overwrite, keep_ass_notes) with overwrite set, or on an
\* assessment dated today, overwrites the row with that id in place: no row is
\* added, the ids stay, every project keeps its number of rows.  Otherwise it
\* adds exactly one row with the same project_no, a new id and today's date,
\* and leaves every existing row as it was.
C2_UpdateInPlaceOrNewRow ==
    [][\A s \in Sessions, o \in BOOLEAN, k \in BOOLEAN :
          update(s, o, k) =>
             LET self == held[s] IN
             IF o \/ self.assessment_date = getDate(today)
             THEN /\ Ids(irl_data') = Ids(irl_data)
                  /\ Cardinality(irl_data') = Cardinality(irl_data)
                  /\ \A r \in irl_data : r.id # self.id => r \in irl_data'
                  /\ self.id \in Ids(irl_data) => self \in irl_data'
                  /\ \A p \in ProjectNos :
                        Cardinality(RowsOf(irl_data', p)) =
                        Cardinality(RowsOf(irl_data, p))
             ELSE /\ irl_data \subseteq irl_data'
                  /\ Cardinality(irl_data') = Cardinality(irl_data) + 1
                  /\ \A r \in irl_data' \ irl_data :
                        /\ r.project_no = self.project_no
                        /\ r.id \notin Ids(irl_data)
                        /\ r.assessment_date = getDate(today)]_vars

\* C2 witness: an update took the new-row path and the project now has an
\* older and a newer row.
C2_Witness ==
    /\ last.op = "update"
    /\ ~last.in_place
    /\ \E r1 \in irl_data, r2 \in irl_data :
          /\ r1.project_no = r2.project_no
          /\ r1.id # r2.id
          /\ DateLt(r1.assessment_date, r2.assessment_date)

\* C3: in every reachable state, all assessment rows sharing a project_no
\* carry the same active value.
C3_SameActivePerProject ==
    \A r1 \in irl_data, r2 \in irl_data :
       r1.project_no = r2.project_no => r1.active = r2.active

\* C4: after delete_assessments(list) no assessment row whose id is in the
\* list remains and no action point whose assessment_id is in the list
\* remains; the rows and action points of other ids are unchanged.
C4_DeleteCascades ==
    [][\A ids \in IdSets :
          delete_assessments(ids) =>
             /\ irl_data' = {r \in irl_data : r.id \notin ids}
             /\ action_points' =
                   {ap \in action_points : ap.assessment_id \notin ids}]_vars

\* C4 witness: a delete removed an assessment and its action point while
\* another assessment and another action point stay.
C4_Witness ==
    /\ last.op = "delete_assessments"
    /\ last.irl_ass_dc > 0
    /\ last.ap_dc > 0
    /\ irl_data # {}
    /\ action_points # {}

\* C5: delete_assessments returns true exactly when the number of rows
\* deleted equals the number requested; when it returns false, the rows it
\* did delete stay deleted.
C5_DeleteReportsCounts ==
    [][\A ids \in IdSets :
          delete_assessments(ids) =>
             /\ last'.success =
                   (Cardinality(irl_data) - Cardinality(irl_data')
                       = Cardinality(ids))
             /\ last'.success = (ids \subseteq Ids(irl_data))
             /\ Ids(irl_data') \cap ids = {}
             /\ \A ap \in action_points' : ap.assessment_id \notin ids]_vars

\* C5 witness: a delete returned false after removing at least one row.
C5_Witness ==
    /\ last.op = "delete_assessments"
    /\ ~last.success
    /\ last.irl_ass_dc > 0

\* C6: get_projects returns at most one assessment per project_no; each is
\* the row with the greatest assessment_date among all rows of its
\* project_no, and each carries the requested active flag.
C6_LatestOfAllRows ==
    last.op = "get_projects" =>
       /\ \A r1 \in last.result, r2 \in last.result :
             r1.project_no = r2.project_no => r1 = r2
       /\ \A r \in last.result :
             /\ r.active = ToInt(last.active)
             /\ \A q \in RowsOf(irl_data, r.project_no) :
                   ~DateLt(r.assessment_date, q.assessment_date)

\* C7: for a caller of rights <= 3, get_projects returns only projects on
\* which a ProjectTeam row with the caller's user_id and active = 1 exists,
\* and with filt = True only those of them the caller leads; a project whose
\* membership has been deactivated is not returned.
C7_TeamMembersOnly ==
    (last.op = "get_projects" /\ last.user.rights <= 3) =>
       \A r \in last.result :
          /\ \E t \in project_teams :
                /\ t.user_id = last.user.user_id
                /\ t.active = 1
                /\ t.project_id = r.project_no
          /\ last.filt = "True" => r.project_leader_id = last.user.user_id

\* C7 witness: a team member's listing holds a project and leaves out a
\* project that has rows of the requested flag and on which the caller's
\* only membership is deactivated.
C7_Witness ==
    /\ last.op = "get_projects"
    /\ last.user.rights <= 3
    /\ last.result # {}
    /\ \E t \in project_teams :
          /\ t.user_id = last.user.user_id
          /\ t.active = 0
          /\ \E q \in irl_data :
                /\ q.project_no = t.project_id
                /\ q.active = ToInt(last.active)
          /\ \A r \in last.result : r.project_no # t.project_id

C9_SuperuserOrganisation ==
    (last.op = "get_projects" /\ last.user.rights = 8 /\ last.filt = "False")
    => Listing(last.result, ToInt(last.active),
               LAMBDA r : \E v \in users :
                             /\ v.user_id = r.project_leader_id
                             /\ v.active = 1
                             /\ v.org_id = last.user.org_id)

\* C9 witness: an organisation listing holds a project and leaves out a
\* project led by a deactivated user.
C9_Witness ==
    /\ last.op = "get_projects"
    /\ last.user.rights = 8
    /\ last.filt = "False"
    /\ last.result # {}
    /\ \E q \in irl_data :
          /\ q.active = ToInt(last.active)
          /\ \E v \in users : v.user_id = q.project_leader_id /\ v.active = 0
          /\ \A r \in last.result : r.project_no # q.project_no

\* C10 as stated: for rights 4 to 7, and for rights 8 or 9 with filt = False,
\* get_projects returns the full list of latest rows per project with the
\* requested active flag.
C10_Original ==
    (/\ last.op = "get_projects"
     /\ \/ last.user.rights \in 4..7
        \/ last.user.rights \in {8, 9} /\ last.filt = "False")
    => Listing(last.result, ToInt(last.active), LAMBDA r : TRUE)

\* C10 amended: for rights 4 to 7, and for rights 9 with filt = False,
\* get_projects returns the full list of latest rows per project with the
\* requested active flag; rights 8 with filt = False is narrowed to the
\* caller's organisation.
C10_NoNarrowing ==
    (/\ last.op = "get_projects"
     /\ \/ last.user.rights \in 4..7
        \/ last.user.rights = 9 /\ last.filt = "False")
    => Listing(last.result, ToInt(last.active), LAMBDA r : TRUE)

\* C10 witness: an unnarrowed listing holds projects of two leaders, neither
\* of them the caller.
C10_Witness ==
    /\ last.op = "get_projects"
    /\ \/ last.user.rights \in 4..7
       \/ last.user.rights = 9 /\ last.filt = "False"
    /\ \E r1 \in last.result, r2 \in last.result :
          /\ r1.project_leader_id # r2.project_leader_id
          /\ r1.project_leader_id # last.user.user_id
          /\ r2.project_leader_id # last.user.user_id

\* C11: add_user on a username that is stored returns no user and leaves
\* the Users and User Settings tables unchanged; otherwise it adds exactly
\* one User row and exactly one UserSettings row for that user, with
\* smooth_irl = 1, filter_on_user = 1, remember_project = 1,
\* ascending_irl = 1, ap_table_view = 0, dark_mode = 1, and returns the
\* created user.
C11_AddUserOnceWithSettings ==
    [][/\ \A s \in Sessions, n \in Usernames, pw \in Passwords :
             on_add_new_user(s, n, pw, pw, 2, 1) =>
                IF \E u \in users : u.username = n
                THEN /\ ss'[s].add_new_user_status = "2"
                     /\ users' = users
                     /\ user_settings' = user_settings
                ELSE /\ user_settings' = user_settings
                     /\ users \subseteq users'
                     /\ Cardinality(users') = Cardinality(users) + 1
                     /\ \A u \in users' \ users :
                           /\ u.username = n
                           /\ u.user_id \notin {v.user_id : v \in users}
       /\ \A s \in Sessions :
             add_user_settings(s) =>
                /\ users' = users
                /\ user_settings \subseteq user_settings'
                /\ Cardinality(user_settings') = Cardinality(user_settings) + 1
                /\ last'.new_user \in users
                /\ last'.new_user.username = running[s].username
                /\ \A t \in user_settings' \ user_settings :
                      /\ t.user_id = last'.new_user.user_id
                      /\ t.smooth_irl = 1
                      /\ t.filter_on_user = 1
                      /\ t.remember_project = 1
                      /\ t.ascending_irl = 1
                      /\ t.ap_table_view = 0
                      /\ t.dark_mode = 1]_vars

\* C11 witness: a second user has been added, with its settings row, after
\* an add_user on a stored username was refused.
C11_Witness ==
    /\ last.op = "add_user"
    /\ last.committed = "UserSettings"
    /\ \E s \in Sessions : ss[s].add_new_user_status = "2"
    /\ \E t \in user_settings : t.user_id = last.new_user.user_id

\* C12: in every reachable state every User row has exactly one
\* UserSettings row.
C12_UserHasSettings ==
    \A u \in users :
       Cardinality({t \in user_settings : t.user_id = u.user_id}) = 1

\* C13: validate_user returns the stored User exactly when a user with the
\* username exists and the password matches the stored hash; in every other
\* case, a user without a password included, it returns no value and does
\* not raise.
C13_ValidateUser ==
    last.op = "validate_user" =>
       /\ last.raised = NoneText
       /\ IF \E u \in users : /\ u.username = last.username
                              /\ u.password = hashpw(last.password)
          THEN /\ last.db_user \in users
               /\ last.db_user.username = last.username
          ELSE last.db_user = NoUser

\* C19: change_password changes a stored password only when the new
\* passwords match and validate_user succeeds for the acting user with the
\* old/admin password; a successful self-service submission changes the
\* acting user's own password and nobody else's, whatever the acting user's
\* rights; a successful admin submission (by a user of rights 9) changes the
\* named user's password.
C19_ChangePassword ==
    [][\A user \in users, admin \in BOOLEAN, n \in Usernames \cup {NoneText},
          pw0 \in Passwords, pw1 \in Passwords, pw2 \in Passwords :
          ((admin => user.rights = 9)
              /\ change_password(user, admin, n, pw0, pw1, pw2)) =>
             LET ok == /\ pw1 = pw2
                       /\ user.password = hashpw(pw0)
                 Changed(id) ==
                    {IF u.user_id = id
                       THEN [u EXCEPT !.password = hashpw(pw1)]
                       ELSE u : u \in users}
             IN  /\ ~ok => users' = users
                 /\ (ok /\ ~admin) => users' = Changed(user.user_id)
                 /\ (ok /\ admin /\ \E u \in users : u.username = n) =>
                       users' = Changed((CHOOSE u \in users :
                                            u.username = n).user_id)]_vars

\* C14: after a run of the script, a session is shown only the bootstrap UI
\* and no page is dispatched while owner_org_id is unset; once it is set an
\* unverified session is shown exactly Login and Introduction, and a
\* verified session is shown Logout, Project Assessment, Project Portfolio
\* and Introduction plus pages of the Tools & Settings menu only.
ToolPages ==
    {"Project Tools", "Reports", "Admin Tools", "User Settings",
     "System Settings"}
C14_PagesByState ==
    last.op = "rn_irl" =>
        LET shown == ss[last.session].shown
        IN  IF owner_org_id = 0
            THEN shown = {"bootstrap"} /\ ~last.ran
            ELSE IF ss[last.session].status # "verified"
            THEN shown = {"Login", "Introduction"}
            ELSE /\ {"Logout", "Project Assessment", "Project Portfolio",
                     "Introduction"} \subseteq shown
                 /\ shown \subseteq
                        {"Logout", "Project Assessment",
                         "Project Portfolio", "Introduction"} \cup ToolPages

\* C15: the Tools & Settings menu a run builds for a verified user is
\* {User Settings} for rights below 2 and for rights 6 and 7, {Project
\* Tools, Reports, User Settings} for rights 2 and 8, those three plus Admin
\* Tools and System Settings for rights 9, and no list for rights 3, 4, 5.
C15_ToolsByRights ==
    (/\ last.op = "rn_irl"
     /\ ss[last.session].status = "verified") =>
        LET rights == ss[last.session].user.rights
            tools == last.tools
        IN  /\ rights \in {0, 1, 6, 7} =>
                  /\ tools.returns = "list"
                  /\ Titles(tools.pages) = {"User Settings"}
            /\ rights \in {2, 8} =>
                  /\ tools.returns = "list"
                  /\ Titles(tools.pages) =
                         {"Project Tools", "Reports", "User Settings"}
            /\ rights = 9 =>
                  /\ tools.returns = "list"
                  /\ Titles(tools.pages) = ToolPages
            /\ rights \in {3, 4, 5} => tools.returns = "None"
C15_Witness ==
    /\ last.op = "rn_irl"
    /\ ss[last.session].status = "verified"
    /\ ss[last.session].user.rights = 8
    /\ "Reports" \in ss[last.session].shown

\* C16: when on_init_system, started with owner_org_id unset and the
\* username free, reports status 1, it has inserted exactly one
\* Organisation, the session is verified with a stored user of rights 9
\* whose org_id is that organisation's id, owner_org_id is that id, and the
\* session's next run shows the Administrator navigation.
C16_Bootstrap ==
    (/\ last.op = "on_init_system"
     /\ last.status = "1"
     /\ last.pre) =>
        LET session_state == ss[last.session]
            created == {w \in last.wrote : w[1] = "Organisation"}
        IN  /\ Cardinality(created) = 1
            /\ \A w \in created :
                  /\ session_state.user.org_id = w[2]
                  /\ owner_org_id = w[2]
            /\ session_state.user \in users
            /\ session_state.user.rights = 9
            /\ session_state.status = "verified"
            /\ Startup(session_state).shown =
                   {"Logout", "Project Assessment", "Project Portfolio",
                    "Introduction"} \cup ToolPages

\* C17: when on_add_new_user or on_init_system reports status 0 or 2, the
\* callback has inserted no row.
C17_NoPartialState ==
    (/\ last.op \in {"on_add_new_user", "on_init_system"}
     /\ last.status \in {"0", "2"}) => last.wrote = {}

\* C18: a step that invokes delete_assessments or removes an assessment or
\* action-point row is taken from the deletion form only while at least one
\* assessment is selected and both confirmation checkboxes are checked.
C18_DeleteGated ==
    [][(\/ last'.op = "delete_assessments"
        \/ ~(Ids(irl_data) \subseteq Ids(irl_data'))
        \/ ~(action_points \subseteq action_points'))
       => /\ ss[Editor].assessments_to_delete # {}
          /\ ss[Editor].i_know_what_im_doing
          /\ ss[Editor].i_really_know]_vars
C18_Witness ==
    /\ last.op = "delete_assessments"
    /\ last.irl_ass_dc > 0
    /\ last.ap_dc > 0
    /\ ss[Editor].i_know_what_im_doing
    /\ ss[Editor].i_really_know

\* C20: ap_completed(id) returns true if the assessment's stored date is
\* today's; otherwise it returns true exactly when every action point of
\* the assessment (possibly none) has progress 100.
C20_ApCompleted ==
    last.op = "ap_completed" =>
        LET irl == CHOOSE r \in irl_data : r.id = last.irl_ass_id
            aps == {ap \in action_points :
                       ap.assessment_id = last.irl_ass_id}
        IN  IF irl.assessment_date = getDate(today)
            THEN last.completed
            ELSE last.completed <=> \A ap \in aps : ap.progress = 100
C20_Witness ==
    /\ last.op = "ap_completed"
    /\ ~last.completed
    /\ \E ap \in action_points :
          /\ ap.assessment_id = last.irl_ass_id
          /\ ap.progress = 100

\* C21: for the assessment a session holds, calc_license_value and
\* calc_startup_value return the sum of the six LicenseValue (StartupValue)
\* cells at (CRL, crl), (TRL, trl), (BRL, brl), (IPRL, iprl), (TMRL, tmrl),
\* (FRL, frl), and the two *_target_value methods the sum of the six cells at
\* the target levels.
Cell(type, level, column) ==
    (CHOOSE r \in IRL : r.IRLType = type /\ r.Level = level)[column]
SixCells(column, crl, trl, brl, iprl, tmrl, frl) ==
    Cell("CRL", crl, column) + Cell("TRL", trl, column)
    + Cell("BRL", brl, column) + Cell("IPRL", iprl, column)
    + Cell("TMRL", tmrl, column) + Cell("FRL", frl, column)
C21_SumOfSixCells ==
    LET self == held[Editor]
    IN  /\ last.op = "calc_license_value" =>
              last.value = SixCells("LicenseValue", self.crl, self.trl,
                                    self.brl, self.iprl, self.tmrl, self.frl)
        /\ last.op = "calc_startup_value" =>
              last.value = SixCells("StartupValue", self.crl, self.trl,
                                    self.brl, self.iprl, self.tmrl, self.frl)
        /\ last.op = "calc_license_target_value" =>
              last.value = SixCells("LicenseValue", self.crl_target,
                                    self.trl_target, self.brl_target,
                                    self.iprl_target, self.tmrl_target,
                                    self.frl_target)
        /\ last.op = "calc_startup_target_value" =>
              last.value = SixCells("StartupValue", self.crl_target,
                                    self.trl_target, self.brl_target,
                                    self.iprl_target, self.tmrl_target,
                                    self.frl_target)
C21_Witness ==
    /\ last.op = "calc_license_target_value"
    /\ held[Editor].crl = 9
    /\ held[Editor].crl_target = 1
    /\ held[Editor].frl_target = 9
    /\ last.value = 900001 + 11110

\* C22: the row update() adds on its new-row path carries the caller's
\* project_no, project_name, project_leader_id, project_description, six
\* levels, six targets, six target leads, six target due dates,
\* plot_targets and active; its project_notes and six per-scale notes are
\* the caller's if keep_ass_notes is true and unset otherwise.
CopiedColumns ==
    {"project_no", "project_name", "project_leader_id",
     "project_description", "crl", "trl", "brl", "iprl", "tmrl", "frl",
     "crl_target", "trl_target", "brl_target", "iprl_target", "tmrl_target",
     "frl_target", "crl_target_lead", "trl_target_lead", "brl_target_lead",
     "iprl_target_lead", "tmrl_target_lead", "frl_target_lead",
     "crl_target_duedate", "trl_target_duedate", "brl_target_duedate",
     "iprl_target_duedate", "tmrl_target_duedate", "frl_target_duedate",
     "plot_targets", "active"}
NotesColumns ==
    {"project_notes", "crl_notes", "trl_notes", "brl_notes", "iprl_notes",
     "tmrl_notes", "frl_notes"}
C22_NewRowCopies ==
    [][\A o \in BOOLEAN, k \in BOOLEAN :
          (update(Editor, o, k) /\ ~InPlace(held[Editor], o)) =>
              \E new_irl \in irl_data' :
                  /\ irl_data' = irl_data \cup {new_irl}
                  /\ new_irl.id \notin Ids(irl_data)
                  /\ \A c \in CopiedColumns : new_irl[c] = held[Editor][c]
                  /\ \A c \in NotesColumns :
                        new_irl[c] = IF k THEN held[Editor][c]
                                     ELSE NoneText]_vars
C22_Witness ==
    /\ last.op = "update"
    /\ ~last.in_place
    /\ \E r1 \in irl_data, r2 \in irl_data :
          /\ r1.project_no = r2.project_no
          /\ r1.id < r2.id
          /\ r1.frl_notes = "frl note"
          /\ r2.frl_notes = NoneText
          /\ r2.frl_target_lead = "fay"

C24_UnfinishedOnly ==
    last.op = "copy_aps" =>
        \A ap \in action_points :
            ap.ap_id \in last.made => ap.progress < 100

\* C28: every action point's assessment_id is the id of a stored assessment.
C28_ActionPointsAttached ==
    \A ap \in action_points :
        \E r \in irl_data : r.id = ap.assessment_id

\* C25: change_project_status(projects, active) leaves the set of row ids
\* as it is, sets active to the given value on every row whose project_no
\* is among the projects and changes no other column of it, and leaves the
\* rows of every other project_no as they are.
C25_StatusOfAllSnapshots ==
    [][\A ps \in (SUBSET ProjectNos) \ {{}}, a \in BOOLEAN :
          change_project_status(ps, a) =>
              /\ Ids(irl_data') = Ids(irl_data)
              /\ \A r \in irl_data :
                    IF r.project_no \in ps
                    THEN [r EXCEPT !.active = IF a THEN 1 ELSE 0]
                             \in irl_data'
                    ELSE r \in irl_data']_vars
C25_Witness ==
    /\ last.op = "change_project_status"
    /\ \E r1 \in irl_data, r2 \in irl_data :
          /\ r1.project_no = r2.project_no
          /\ r1.id # r2.id
          /\ r1.active = 0
          /\ r2.active = 0

\* C26: an update() on the in-place path of a stored row reports no error
\* and leaves the stored row equal, in every column, to the caller's copy,
\* whatever another session holding a copy of the row had stored before; the
\* other rows stay as they are.
C26_LastCommitWins ==
    [][\A s \in Sessions, o \in BOOLEAN, k \in BOOLEAN :
          (/\ update(s, o, k)
           /\ InPlace(held[s], o)
           /\ held[s].id \in Ids(irl_data)) =>
              /\ last'.error = NoneText
              /\ held[s] \in irl_data'
              /\ Ids(irl_data') = Ids(irl_data)
              /\ \A r \in irl_data : r.id # held[s].id => r \in irl_data']_vars
C26_Witness ==
    /\ last.op = "update"
    /\ last.in_place
    /\ held["s1"] # NoCopy
    /\ held["s2"] # NoCopy
    /\ held["s1"].id = held["s2"].id
    /\ held["s1"].crl = 2
    /\ held["s1"].project_notes = NoneText
    /\ held["s2"].crl = 1
    /\ held["s2"].project_notes = "note"
    /\ held["s2"] \in irl_data

\* C27: no two rows of one project_no carry the same assessment_date.
C27_OneRowPerDate ==
    \A r1 \in irl_data, r2 \in irl_data :
        (/\ r1.project_no = r2.project_no
         /\ r1.assessment_date = r2.assessment_date) => r1.id = r2.id

\* C29: once owner_org_id is set, no step changes it or unsets it.
C29_OwnerWriteOnce ==
    [][owner_org_id # 0 => owner_org_id' = owner_org_id]_vars

\* C30: a run of the script for a verified session presents Admin Tools or
\* System Settings only if the stored row of the session's user has rights 9
\* and active 1.
C30_AdminWhileEntitled ==
    \A s \in Sessions :
        (/\ last.op = "rn_irl"
         /\ last.session = s
         /\ ss[s].status = "verified"
         /\ ss[s].shown \cap {"Admin Tools", "System Settings"} # {}) =>
            \E u \in users :
                /\ u.user_id = ss[s].user.user_id
                /\ u.rights = 9
                /\ u.active = 1

====
